---- MODULE Spec2Model ----
(***************************************************************************)
(* Model of the prediction core of SIH WATER AI: the model registry        *)
(* (backend/app/ml/model_manager.py), the prediction service with its TTL  *)
(* cache and quality derivation (backend/app/services/ml_service.py) and   *)
(* the /predict and /train routes (backend/app/api/routes.py).             *)
(*                                                                         *)
(* Numbers: feature values are whole numbers; raw predictions are counted  *)
(* in thousandths, quality scores in hundredths, confidences in            *)
(* hundredths, time in whole seconds.                                      *)
(***************************************************************************)
EXTENDS Integers, Sequences, FiniteSets, TLC

VARIABLES
    files,          \* the model directory: artifact files in listing order
    managers,       \* every ModelManager object built so far (its models dict)
    mmGlobal,       \* model_manager._model_manager: index into managers, 0 = None
    routesGlobal,   \* routes._model_manager: -1 = unbound, 0 = None
    svcManager,     \* ml_service.model_manager: index into managers
    cache,          \* ml_service._prediction_cache: set of [key, ts, result]
    clock,          \* _time.time()
    last,           \* the request handled last and what it did
    sel,            \* one model_selector call: its registry, request and answer
    qual,           \* one quality derivation: its input and the derived pair
    opt,            \* one optimizer call: its arguments and what it returned
    eng,            \* a TreatmentOptimizerEngine object and the calls made on it
    reg,            \* a model directory, the ModelManager built from it, one call
    rl,             \* rate_limiter._request_log, its clock and the calls made
    mq              \* an MQTTService object, its paho clients and the last event

vars == <<files, managers, mmGlobal, routesGlobal, svcManager, cache, clock,
          last, sel, qual, opt, eng, reg, rl, mq>>

-----------------------------------------------------------------------------
(* Bounds of the exploration *)

MaxClock == 300
TickStep == 150
MaxCache == 1
MaxTrained == 1
MaxSelModels == 2
MaxRaw == 120
MaxFineContamination == 2
MaxCalls == 3

(* Program constants *)

CacheTtlSeconds == 300

-----------------------------------------------------------------------------
(* Small helpers *)

Range(s) == {s[i] : i \in 1..Len(s)}

NoneName == "<None>"

\* Python compares strings; the model ranks the names it uses.
AllNames == <<"a", "b", "c", "d">>
NameRank(n) == CHOOSE i \in 1..Len(AllNames) : AllNames[i] = n

\* A feature mapping is a dict: a sequence of <<name, value>> pairs with
\* distinct names, in insertion order.
Keys(f) == {f[i][1] : i \in 1..Len(f)}
Get(f, n) == LET i == CHOOSE j \in 1..Len(f) : f[j][1] = n IN f[i][2]

FeatureMaps(names, values, maxLen) ==
    {f \in UNION {[1..n -> names \X values] : n \in 0..maxLen} :
        \A i, j \in 1..Len(f) : i # j => f[i][1] # f[j][1]}

-----------------------------------------------------------------------------
(* Python floats: IEEE-754 binary64 arithmetic, round to nearest, ties to   *)
(* even. A natural number of any size is a sequence of limbs, least         *)
(* significant first; a float x >= 0 is [m, e] with x = m * 2^e and m of    *)
(* exactly 53 bits, or m = <<>> for 0.0.                                    *)

LimbBase == 2^15

RECURSIVE BNorm(_)
BNorm(a) ==
    IF a = <<>> THEN <<>>
    ELSE IF a[Len(a)] = 0 THEN BNorm(SubSeq(a, 1, Len(a) - 1)) ELSE a

BFromInt(n) == BNorm(<<n % LimbBase, (n \div LimbBase) % LimbBase,
                       n \div (LimbBase * LimbBase)>>)

RECURSIVE BToInt(_)
BToInt(a) == IF a = <<>> THEN 0 ELSE a[1] + LimbBase * BToInt(Tail(a))

RECURSIVE BMulCarry(_, _, _)
BMulCarry(a, c, carry) ==
    IF a = <<>>
    THEN IF carry = 0 THEN <<>>
         ELSE <<carry % LimbBase>> \o BMulCarry(<<>>, c, carry \div LimbBase)
    ELSE LET v == a[1] * c + carry
         IN  <<v % LimbBase>> \o BMulCarry(Tail(a), c, v \div LimbBase)

\* a * c for 0 <= c < LimbBase
BMulSmall(a, c) == BNorm(BMulCarry(a, c, 0))

RECURSIVE BDivRem(_, _, _)
BDivRem(a, c, rem) ==
    IF a = <<>> THEN [q |-> <<>>, r |-> rem]
    ELSE LET v == rem * LimbBase + a[Len(a)]
             lower == BDivRem(SubSeq(a, 1, Len(a) - 1), c, v % c)
         IN  [q |-> lower.q \o <<v \div c>>, r |-> lower.r]

\* quotient and remainder of a by c, 0 < c < LimbBase
BDivNorm(d) == [q |-> BNorm(d.q), r |-> d.r]
BDivSmall(a, c) == BDivNorm(BDivRem(a, c, 0))

RECURSIVE BAddCarry(_, _, _)
BAddCarry(a, b, carry) ==
    IF a = <<>> /\ b = <<>>
    THEN IF carry = 0 THEN <<>> ELSE <<carry>>
    ELSE LET x == IF a = <<>> THEN 0 ELSE a[1]
             y == IF b = <<>> THEN 0 ELSE b[1]
             v == x + y + carry
         IN  <<v % LimbBase>> \o
             BAddCarry(IF a = <<>> THEN <<>> ELSE Tail(a),
                       IF b = <<>> THEN <<>> ELSE Tail(b), v \div LimbBase)

BAdd(a, b) == BNorm(BAddCarry(a, b, 0))

RECURSIVE BSubBorrow(_, _, _)
BSubBorrow(a, b, borrow) ==
    IF a = <<>> THEN <<>>
    ELSE LET y == IF b = <<>> THEN 0 ELSE b[1]
             v == a[1] - y - borrow
         IN  <<IF v < 0 THEN v + LimbBase ELSE v>> \o
             BSubBorrow(Tail(a), IF b = <<>> THEN <<>> ELSE Tail(b),
                        IF v < 0 THEN 1 ELSE 0)

\* a - b for a >= b
BSub(a, b) == BNorm(BSubBorrow(a, b, 0))

RECURSIVE BLessTop(_, _)
BLessTop(a, b) ==
    IF a = <<>> THEN FALSE
    ELSE IF a[Len(a)] # b[Len(b)] THEN a[Len(a)] < b[Len(b)]
    ELSE BLessTop(SubSeq(a, 1, Len(a) - 1), SubSeq(b, 1, Len(b) - 1))

\* a < b for normalised a, b
BLess(a, b) ==
    IF Len(a) # Len(b) THEN Len(a) < Len(b) ELSE BLessTop(a, b)

RECURSIVE SmallBitLen(_)
SmallBitLen(n) == IF n = 0 THEN 0 ELSE 1 + SmallBitLen(n \div 2)

BBitLen(a) == IF a = <<>> THEN 0 ELSE 15 * (Len(a) - 1) + SmallBitLen(a[Len(a)])

BIsOdd(a) == a # <<>> /\ a[1] % 2 = 1

Zeros(k) == [i \in 1..k |-> 0]

\* a * 2^n
BShl(a, n) ==
    IF a = <<>> THEN <<>>
    ELSE BMulSmall(Zeros(n \div 15) \o a, 2^(n % 15))

\* a \div 2^n, and whether a nonzero bit was dropped
BShrStickyOf(a, n, ld, dv) ==
    [q |-> IF n \div 15 >= Len(a) THEN <<>> ELSE dv.q,
     sticky |-> \/ \E i \in 1..ld : a[i] # 0
                \/ (n \div 15 < Len(a) /\ dv.r # 0)]
BShrStickyAt(a, n, ld) ==
    BShrStickyOf(a, n, ld, BDivSmall(SubSeq(a, ld + 1, Len(a)), 2^(n % 15)))
BShrSticky(a, n) ==
    BShrStickyAt(a, n, IF n \div 15 < Len(a) THEN n \div 15 ELSE Len(a))

\* n * 2^(-s) rounded to an integer, ties to even (s >= 1); stickyIn says
\* that the exact value lies strictly above n * 2^(-s).
BShrRoundUp(sh, q, stickyIn) ==
    IF BIsOdd(sh.q) /\ (sh.sticky \/ stickyIn \/ BIsOdd(q))
    THEN BAdd(q, <<1>>) ELSE q
BShrRoundHalf(sh, stickyIn) == BShrRoundUp(sh, BDivSmall(sh.q, 2).q, stickyIn)
BShrRound(n, s, stickyIn) == BShrRoundHalf(BShrSticky(n, s - 1), stickyIn)

FloatZero == [m |-> <<>>, e |-> 0]

\* The float nearest to n * 2^e (n normalised). With stickyIn the exact
\* value lies strictly between n * 2^e and (n + 1) * 2^e, and n must carry
\* at least 55 bits.
RoundCarry(m1, e) ==
    IF BBitLen(m1) > 53 THEN [m |-> BDivSmall(m1, 2).q, e |-> e + 1]
    ELSE [m |-> m1, e |-> e]
RoundToFloatLen(n, e, stickyIn, len) ==
    IF len = 0 THEN FloatZero
    ELSE IF len <= 53 THEN [m |-> BShl(n, 53 - len), e |-> e - (53 - len)]
    ELSE RoundCarry(BShrRound(n, len - 53, stickyIn), e + (len - 53))
RoundToFloat(n, e, stickyIn) == RoundToFloatLen(n, e, stickyIn, BBitLen(n))

\* the float nearest to an inexact quotient dv = [q, r] scaled by 2^e
RoundQuot(dv, e) == RoundToFloat(dv.q, e, dv.r # 0)

\* float("d/1000") for a decimal of d thousandths, 0 <= d < 2^18
FloatOfThousandths(d) ==
    RoundQuot(BDivSmall(BShl(BFromInt(d), 65), 1000), -65)

\* x / 200.0
FloatDiv200(x) == RoundQuot(BDivSmall(BShl(x.m, 10), 200), x.e - 10)

\* x * 100
FloatMul100(x) == RoundToFloat(BMulSmall(x.m, 100), x.e, FALSE)

\* x < 100 for a float x >= 0
FloatLess100(x) ==
    \/ x.m = <<>>
    \/ x.e < 0 /\ BLess(x.m, BShl(<<100>>, -x.e))

\* 100 - x for a float 0 <= x < 100
FloatSubFrom100(x) ==
    IF x.m = <<>> THEN RoundToFloat(<<100>>, 0, FALSE)
    ELSE RoundToFloat(BSub(BShl(<<100>>, -x.e), x.m), x.e, FALSE)

\* round(x, 2) in hundredths, for a float 0 <= x <= 100: the exact binary
\* value times 100, rounded to an integer, ties to even.
Round2(x) ==
    IF x.m = <<>> THEN 0
    ELSE IF x.e >= 0 THEN BToInt(BShl(BMulSmall(x.m, 100), x.e))
    ELSE BToInt(BShrRound(BMulSmall(x.m, 100), -x.e, FALSE))

-----------------------------------------------------------------------------
(* Signed floats, for the arithmetic of the optimizers: [neg, m, e] is the  *)
(* float -m * 2^e when neg and m * 2^e otherwise; zero is never negative.   *)

Abs(k) == IF k < 0 THEN -k ELSE k

FSigned(neg, x) == [neg |-> neg /\ x.m # <<>>, m |-> x.m, e |-> x.e]

\* float(k) for an integer k
FOfInt(k) == FSigned(k < 0, RoundToFloat(BFromInt(Abs(k)), 0, FALSE))

\* the float nearest to n / 100, the value of a decimal with two places
FOfHundredths(n) ==
    FSigned(n < 0,
            RoundQuot(BDivSmall(BShl(BFromInt(Abs(n)), 65), 100), -65))

\* x / k for an integer 0 < k < LimbBase
FDivInt(x, k) ==
    FSigned(x.neg, RoundQuot(BDivSmall(BShl(x.m, 30), k), x.e - 30))

\* x * k for an integer 0 < k < LimbBase
FMulInt(x, k) == FSigned(x.neg, RoundToFloat(BMulSmall(x.m, k), x.e, FALSE))

RECURSIVE BMul(_, _)
BMul(a, b) ==
    IF a = <<>> \/ b = <<>> THEN <<>>
    ELSE BAdd(BMulSmall(a, b[1]), <<0>> \o BMul(a, Tail(b)))

\* x * y
FMul(x, y) ==
    FSigned(x.neg # y.neg, RoundToFloat(BMul(x.m, y.m), x.e + y.e, FALSE))

\* the sum of two signed magnitudes a * 2^e and b * 2^e
FAddMagnitude(same, aLess, a, b) ==
    IF same THEN BAdd(a, b) ELSE IF aLess THEN BSub(b, a) ELSE BSub(a, b)
FAddSigned(aneg, a, bneg, b, e, aLess) ==
    FSigned(IF aneg # bneg /\ aLess THEN bneg ELSE aneg,
            RoundToFloat(FAddMagnitude(aneg = bneg, aLess, a, b), e, FALSE))
FAddAligned(aneg, a, bneg, b, e) ==
    FAddSigned(aneg, a, bneg, b, e, BLess(a, b))

FAddAt(x, y, e) ==
    FAddAligned(x.neg, BShl(x.m, x.e - e), y.neg, BShl(y.m, y.e - e), e)

\* x + y and x - y
FAdd(x, y) == FAddAt(x, y, IF x.e < y.e THEN x.e ELSE y.e)
FSub(x, y) == FAdd(x, [y EXCEPT !.neg = ~y.neg /\ y.m # <<>>])

FMagLessAt(x, y, e) == BLess(BShl(x.m, x.e - e), BShl(y.m, y.e - e))
FMagLess(x, y) == FMagLessAt(x, y, IF x.e < y.e THEN x.e ELSE y.e)

\* x < y
FLess(x, y) ==
    IF x.neg # y.neg THEN x.neg
    ELSE IF x.neg THEN FMagLess(y, x) ELSE FMagLess(x, y)

\* min(a, b) and max(a, b) of Python: the first argument unless the second
\* is strictly smaller (larger)
PyMin(a, b) == IF FLess(b, a) THEN b ELSE a
PyMax(a, b) == IF FLess(a, b) THEN b ELSE a

\* max(lo, min(x, hi)) with integer bounds
Clamp(x, lo, hi) == PyMax(FOfInt(lo), PyMin(x, FOfInt(hi)))

\* the magnitude of x times scale, rounded to an integer, ties to even
RoundMag(n, e) ==
    IF n = <<>> THEN 0
    ELSE IF e >= 0 THEN BToInt(BShl(n, e))
    ELSE BToInt(BShrRound(n, -e, FALSE))

\* round(x, k) and the format :.kf, as a count of units of 10^-k
RoundDec(x, k) ==
    (IF x.neg THEN -1 ELSE 1) * RoundMag(BMulSmall(x.m, 10^k), x.e)

-----------------------------------------------------------------------------
(* The quality derivation of MLService: regressor paths. A raw prediction   *)
(* is the float nearest to d thousandths; the result is the pair            *)
(* <<round(quality_score, 2), round(contamination_index, 2)>> in hundredths *)

\* max(0, min(100, x)), contamination = 100 - quality, both rounded; neg
\* says x <= 0.
ClampAndRound(x, neg) ==
    IF neg \/ x.m = <<>> THEN <<0, 10000>>
    ELSE IF ~FloatLess100(x) THEN <<10000, 0>>
    ELSE <<Round2(x), Round2(FloatSubFrom100(x))>>

\* 'dataset3' in model_name.lower(): the prediction is the quality
TreatmentEfficiencyQuality(d) ==
    ClampAndRound(IF d > 0 THEN FloatOfThousandths(d) ELSE FloatZero, d <= 0)

\* the bands with their upper ends included (for comparison)
BodQualityInclusive(d) ==
    IF d <= 200000 THEN <<9000, 1000>>
    ELSE IF d <= 400000 THEN <<7000, 3000>>
    ELSE IF d <= 600000 THEN <<5000, 5000>>
    ELSE <<3000, 7000>>

\* 'dataset4' in model_name.lower(): the prediction is a BOD value, banded
BodQuality(d) ==
    IF d < 200000 THEN <<9000, 1000>>
    ELSE IF d < 400000 THEN <<7000, 3000>>
    ELSE IF d < 600000 THEN <<5000, 5000>>
    ELSE <<3000, 7000>>

\* any other regressor, and the ensemble: (prediction / 200.0) * 100
GenericQuality(d) ==
    ClampAndRound(IF d > 0
                  THEN FloatMul100(FloatDiv200(FloatOfThousandths(d)))
                  ELSE FloatZero, d <= 0)

-----------------------------------------------------------------------------
(* The model registry: ModelManager *)

\* An artifact is a loaded UnifiedMLPipeline under its dataset key.
\* hasCols = FALSE is feature_columns = None (no metadata sidecar).
\* chain stands for the fitted transform chain: what it answers is fixed by
\* base and step (thousandths) and by the version of the training run.
Artifact(key, type, hasCols, cols, version, chain) ==
    [key |-> key, model_type |-> type, hasCols |-> hasCols, cols |-> cols,
     version |-> version, chain |-> chain, file |-> "ok"]

\* A file of the model directory that does not load: "badname" has a stem
\* that does not split into two parts at '_model_v', "corrupt" is not a
\* readable pickle, "badmeta" has an unreadable sidecar, "nokind" has a
\* sidecar without the 'model_type' entry.
Malformed(art, why) == [art EXCEPT !.file = why]

Chain(base, step) == [base |-> base, step |-> step]

HasKey(models, name) == \E i \in 1..Len(models) : models[i].key = name
Lookup(models, name) ==
    models[CHOOSE i \in 1..Len(models) : models[i].key = name]

\* len(feature_names.intersection(model_features)) and len(model_features)
Overlap(art, features) == Cardinality(Keys(features) \cap Range(art.cols))
TotalFeatures(art) == Cardinality(Range(art.cols))

\* x[1]['ratio'] of two scored artifacts, compared without division:
\* overlap / total when total > 0, else 0.
RatioGreater(a, b, features) ==
    LET na == IF TotalFeatures(a) > 0 THEN Overlap(a, features) ELSE 0
        da == IF TotalFeatures(a) > 0 THEN TotalFeatures(a) ELSE 1
        nb == IF TotalFeatures(b) > 0 THEN Overlap(b, features) ELSE 0
        db == IF TotalFeatures(b) > 0 THEN TotalFeatures(b) ELSE 1
    IN  na * db > nb * da

\* For comparison: a maximum that keeps the last of several equal items.
RECURSIVE MaxByRatioLast(_, _, _, _)
MaxByRatioLast(scored, features, i, best) ==
    IF i > Len(scored) THEN best
    ELSE MaxByRatioLast(scored, features, i + 1,
                        IF RatioGreater(scored[best], scored[i], features)
                        THEN best ELSE i)

\* max(scores.items(), key=ratio): the first item no later item exceeds.
RECURSIVE MaxByRatio(_, _, _, _)
MaxByRatio(scored, features, i, best) ==
    IF i > Len(scored) THEN best
    ELSE MaxByRatio(scored, features, i + 1,
                    IF RatioGreater(scored[i], scored[best], features)
                    THEN i ELSE best)

\* For comparison: an acceptance test that admits a ratio of exactly 0.5.
SufficientOverlapLoose(art, features) ==
    TotalFeatures(art) > 0 /\ 2 * Overlap(art, features) >= TotalFeatures(art)

\* The acceptance test of the best score: ratio > 0.5.
SufficientOverlap(art, features) ==
    TotalFeatures(art) > 0 /\ 2 * Overlap(art, features) > TotalFeatures(art)

model_selector(models, features) ==
    LET scored == SelectSeq(models, LAMBDA a : a.hasCols)
    IN  IF scored = <<>> THEN NoneName
        ELSE LET best == scored[MaxByRatio(scored, features, 2, 1)]
             IN  IF SufficientOverlap(best, features) THEN best.key
                 ELSE NoneName

-----------------------------------------------------------------------------
(* ModelManager.predict and ModelManager.ensemble_predict *)

\* The fitted chain is opaque; it is modelled as a fixed function of the
\* input row that depends on the order of the row and on the training run.
RECURSIVE Score(_, _)
Score(row, i) == IF i > Len(row) THEN 0 ELSE i * row[i] + Score(row, i + 1)

PipelinePredict(art, row) ==
    IF art.model_type = "classifier"
    THEN 1000 * ((Score(row, 1) + art.version) % 2)
    ELSE art.chain.base + art.chain.step * (Score(row, 1) + art.version - 1)

\* max(predict_proba) of a classifier, in hundredths
PipelineConfidence(art, row) ==
    IF (Score(row, 1) + art.version) % 3 = 0 THEN 80 ELSE 60

\* For comparison: missing features filled with 1.0.
FillMissingOnes(features, cols) ==
    features \o
    [i \in 1..Len(SelectSeq(cols, LAMBDA c : c \notin Keys(features))) |->
        <<SelectSeq(cols, LAMBDA c : c \notin Keys(features))[i], 1>>]

\* pd.DataFrame([features]) with the missing features added as 0.0 columns
FillMissing(features, cols) ==
    features \o
    [i \in 1..Len(SelectSeq(cols, LAMBDA c : c \notin Keys(features))) |->
        <<SelectSeq(cols, LAMBDA c : c \notin Keys(features))[i], 0>>]

\* For comparison: a row that keeps the column order of the request.
SelectColumnsByPosition(df, cols) == [i \in 1..Len(cols) |-> df[i][2]]

\* feature_df[pipeline.feature_columns]: columns picked by name
SelectColumns(df, cols) == [i \in 1..Len(cols) |-> Get(df, cols[i])]

NoResult ==
    [kind |-> "none", prediction |-> 0, weight_sum |-> 1, model_name |-> NoneName,
     features_used |-> <<>>, has_confidence |-> FALSE, confidence |-> 0,
     contributors |-> <<>>, weights |-> <<>>,
     quality_score |-> 0, contamination_index |-> 0, computed_by |-> 0]

Raise(exc, error, ran) ==
    [exc |-> exc, error |-> error, result |-> NoResult, ran |-> ran]
Return(result, ran) ==
    [exc |-> "none", error |-> "none", result |-> result, ran |-> ran]

\* ModelManager.predict(dataset_name, features); ran lists the chain runs.
MMPredict(models, name, features) ==
    IF ~HasKey(models, name) THEN Raise("ValueError", "ModelNotFound", <<>>)
    ELSE LET art == Lookup(models, name)
         IN  IF ~art.hasCols   \* set(None) raises TypeError
             THEN Raise("TypeError", "Unexpected", <<>>)
             ELSE LET row == SelectColumns(FillMissing(features, art.cols),
                                           art.cols)
                  IN  Return(
                        [NoResult EXCEPT
                           !.kind = "single",
                           !.prediction = PipelinePredict(art, row),
                           !.model_name = name,
                           !.features_used = art.cols,
                           !.has_confidence = (art.model_type = "classifier"),
                           !.confidence =
                               IF art.model_type = "classifier"
                               THEN PipelineConfidence(art, row) ELSE 0,
                           !.computed_by = art.version],
                        <<[key |-> name, version |-> art.version, row |-> row]>>)

RECURSIVE SumSeq(_)
SumSeq(s) == IF s = <<>> THEN 0 ELSE s[1] + SumSeq(Tail(s))

RECURSIVE Concat(_)
Concat(ss) == IF ss = <<>> THEN <<>> ELSE ss[1] \o Concat(Tail(ss))

\* For comparison: an ensemble that gives every contributor the weight 0.5.
MMEnsembleUnweighted(models, features) ==
    LET each == [i \in 1..Len(models) |->
                    MMPredict(models, models[i].key, features)]
        okIdx == SelectSeq([i \in 1..Len(models) |-> i],
                           LAMBDA i : each[i].exc = "none")
        conf == [j \in 1..Len(okIdx) |-> 50]
        firstRuns == Concat([i \in 1..Len(models) |-> each[i].ran])
        bad == {i \in 1..Len(models) : each[i].exc # "none"}
        firstBad == CHOOSE i \in bad : \A j \in bad : i <= j
    IN  IF okIdx = <<>>
        THEN Raise("ValueError", "NoModelsAvailable", firstRuns)
        ELSE IF bad # {}
        THEN Raise(each[firstBad].exc, each[firstBad].error,
                   firstRuns \o
                   Concat([i \in 1..(firstBad - 1) |-> each[i].ran]))
        ELSE Return(
               [NoResult EXCEPT
                  !.kind = "ensemble",
                  !.prediction =
                      SumSeq([j \in 1..Len(okIdx) |->
                                 conf[j] * each[okIdx[j]].result.prediction]),
                  !.weight_sum = SumSeq(conf),
                  !.contributors = [j \in 1..Len(okIdx) |-> models[okIdx[j]].key],
                  !.weights = conf],
               firstRuns \o firstRuns)

\* ModelManager.ensemble_predict(features). prediction / weight_sum is the
\* weighted average: prediction = sum of confidence * prediction over the
\* contributors, weight_sum = sum of their confidences (hundredths).
MMEnsemble(models, features) ==
    LET each == [i \in 1..Len(models) |->
                    MMPredict(models, models[i].key, features)]
        okIdx == SelectSeq([i \in 1..Len(models) |-> i],
                           LAMBDA i : each[i].exc = "none")
        conf == [j \in 1..Len(okIdx) |->
                   IF each[okIdx[j]].result.has_confidence
                   THEN each[okIdx[j]].result.confidence ELSE 50]
        firstRuns == Concat([i \in 1..Len(models) |-> each[i].ran])
        \* the dict comprehension of individual_predictions predicts again,
        \* for every key of the registry, outside the try block
        bad == {i \in 1..Len(models) : each[i].exc # "none"}
        firstBad == CHOOSE i \in bad : \A j \in bad : i <= j
    IN  IF okIdx = <<>>
        THEN Raise("ValueError", "NoModelsAvailable", firstRuns)
        ELSE IF bad # {}
        THEN Raise(each[firstBad].exc, each[firstBad].error,
                   firstRuns \o
                   Concat([i \in 1..(firstBad - 1) |-> each[i].ran]))
        ELSE Return(
               [NoResult EXCEPT
                  !.kind = "ensemble",
                  !.prediction =
                      SumSeq([j \in 1..Len(okIdx) |->
                                 conf[j] * each[okIdx[j]].result.prediction]),
                  !.weight_sum = SumSeq(conf),
                  !.contributors = [j \in 1..Len(okIdx) |-> models[okIdx[j]].key],
                  !.weights = conf],
               firstRuns \o firstRuns)

-----------------------------------------------------------------------------
(* MLService: prediction with the TTL cache and the quality derivation *)

\* 'dataset3' in model_name.lower() and 'dataset4' in model_name.lower(),
\* for the dataset keys of this model; a key is the {dataset} path segment
\* of POST /train/{dataset} and may contain both substrings
Dataset3Names == {"dataset3", "DATASET3_uci", "dataset3_dataset4"}
Dataset4Names == {"dataset4", "Dataset4_wwtp", "dataset3_dataset4"}

\* model_name.strip().lower() == 'auto'
AutoSpellings == {"auto", " AUTO "}

Min(a, b) == IF a < b THEN a ELSE b
Max(a, b) == IF a > b THEN a ELSE b

\* the classifier branch with confidence 0.7 counted as high (for comparison)
ClassifierQualityInclusive(prediction, has_confidence, confidence) ==
    LET q == IF prediction = 1000 THEN 8500 ELSE 3000
        c == IF prediction = 1000 THEN 1500 ELSE 7000
        conf == IF has_confidence THEN confidence ELSE 50
    IN  IF conf >= 70 THEN <<Min(10000, q + 1000), Max(0, c - 1000)>>
        ELSE IF conf < 50 THEN <<Max(0, q - 1000), Min(10000, c + 1000)>>
        ELSE <<q, c>>

\* For comparison: a confidence adjustment of the quality score alone.
ClassifierQualityOneSided(prediction, has_confidence, confidence) ==
    LET q == IF prediction = 1000 THEN 8500 ELSE 3000
        c == IF prediction = 1000 THEN 1500 ELSE 7000
        conf == IF has_confidence THEN confidence ELSE 50
    IN  IF conf > 70 THEN <<Min(10000, q + 1000), c>>
        ELSE IF conf < 50 THEN <<Max(0, q - 1000), c>>
        ELSE <<q, c>>

\* classifier branch, in hundredths; confidence defaults to 0.5
ClassifierQuality(prediction, has_confidence, confidence) ==
    LET q == IF prediction = 1000 THEN 8500 ELSE 3000
        c == IF prediction = 1000 THEN 1500 ELSE 7000
        conf == IF has_confidence THEN confidence ELSE 50
    IN  IF conf > 70 THEN <<Min(10000, q + 1000), Max(0, c - 1000)>>
        ELSE IF conf < 50 THEN <<Max(0, q - 1000), Min(10000, c + 1000)>>
        ELSE <<q, c>>

RegressorQuality(model_name, prediction) ==
    IF model_name \in Dataset3Names THEN TreatmentEfficiencyQuality(prediction)
    ELSE IF model_name \in Dataset4Names THEN BodQuality(prediction)
    ELSE GenericQuality(prediction)

DeriveQuality(model_name, model_type, r) ==
    IF model_type = "classifier"
    THEN ClassifierQuality(r.prediction, r.has_confidence, r.confidence)
    ELSE RegressorQuality(model_name, r.prediction)

\* The ensemble average is the fraction prediction / weight_sum thousandths.
\* The generic formula on it: quality = clamp(average / 200 * 100, 0, 100).
\* Where the exact quotient lies half way between two hundredths the float
\* result may fall on either side, for the quality and for the
\* contamination alike: all outcomes are admitted.
EnsembleQualityChoices(num, den) ==
    IF num <= 0 THEN {<<0, 10000>>}
    ELSE IF num >= 200000 * den THEN {<<10000, 0>>}
    ELSE LET lo == num \div (20 * den)
             rem == num % (20 * den)
         IN  IF 2 * rem < 20 * den THEN {<<lo, 10000 - lo>>}
             ELSE IF 2 * rem > 20 * den THEN {<<lo + 1, 10000 - lo - 1>>}
             ELSE {lo, lo + 1} \X {10000 - lo - 1, 10000 - lo}

\* json.dumps(features, sort_keys=True): the items in key order
RECURSIVE InsertByKey(_, _)
InsertByKey(sorted, item) ==
    IF sorted = <<>> THEN <<item>>
    ELSE IF NameRank(item[1]) < NameRank(sorted[1][1]) THEN <<item>> \o sorted
    ELSE <<sorted[1]>> \o InsertByKey(Tail(sorted), item)

RECURSIVE SortedItems(_)
SortedItems(f) ==
    IF f = <<>> THEN <<>>
    ELSE InsertByKey(SortedItems(SubSeq(f, 1, Len(f) - 1)), f[Len(f)])

\* For comparison: a key made of the features alone.
CacheKeyFeaturesOnly(model_name, features) == <<"", SortedItems(features)>>

\* sha256(model_name + '::' + json.dumps(features, sort_keys=True))
CacheKey(model_name, features) == <<model_name, SortedItems(features)>>

CacheHas(c, k) == \E e \in c : e.key = k
CacheGet(c, k) == CHOOSE e \in c : e.key = k
CachePut(c, k, ts, r) ==
    {e \in c : e.key # k} \cup {[key |-> k, ts |-> ts, result |-> r]}

\* For comparison: a window that still admits an age of exactly the TTL.
FreshInclusive(now, ts) == now - ts <= CacheTtlSeconds

\* _time.time() - ts < self._cache_ttl_seconds
Fresh(now, ts) == now - ts < CacheTtlSeconds

NoKey == <<NoneName, <<>>>>

\* What one service call did: the exception or the result, the cache after
\* it, the chain runs, whether model_selector ran, whether the registry was
\* read, the resolved model name, the cache key and whether it was a hit.
\* leaks: the exception message carries the text of an internal exception.
Outcome(exc, error, leaks, result, c, ran, selected, looked, resolved, key, hit) ==
    [exc |-> exc, error |-> error, leaks |-> leaks, result |-> result,
     cache |-> c, ran |-> ran, selectorCalled |-> selected,
     lookedUp |-> looked, resolved |-> resolved, cacheKey |-> key, hit |-> hit,
     \* an entry for the key was found but its age was not below the TTL
     expired |-> FALSE]

\* result['quality_score'] = ..., result['contamination_index'] = ...
WithQuality(r, qc) ==
    [r EXCEPT !.quality_score = qc[1], !.contamination_index = qc[2]]

\* For comparison: a miss that stores whatever came out, a failure too.
PredictUncachedStoring(models, c, now, auto, resolved, key, run, result) ==
    IF run.exc # "none"
    THEN Outcome("ValueError", "PredictionFailed", TRUE, NoResult,
                 CachePut(c, key, now, result),
                 run.ran, auto, TRUE, resolved, key, FALSE)
    ELSE Outcome("none", "none", FALSE, result,
                 CachePut(c, key, now, result),
                 run.ran, auto, TRUE, resolved, key, FALSE)

\* The cache miss: the registry predicts, the quality pair is derived and
\* the result is stored under the key with the current time.
PredictUncached(models, c, now, auto, resolved, key, run, result) ==
    IF run.exc # "none"
    THEN \* except Exception: raise ValueError("Prediction failed: ...")
         Outcome("ValueError", "PredictionFailed", TRUE, NoResult, c,
                 run.ran, auto, TRUE, resolved, key, FALSE)
    ELSE Outcome("none", "none", FALSE, result,
                 CachePut(c, key, now, result),
                 run.ran, auto, TRUE, resolved, key, FALSE)

PredictRun(models, c, now, auto, resolved, key, run) ==
    PredictUncached(models, c, now, auto, resolved, key, run,
        IF run.exc # "none" THEN NoResult
        ELSE WithQuality(run.result,
                 DeriveQuality(resolved, Lookup(models, resolved).model_type,
                               run.result)))

\* The resolved name is looked up, then the cache is consulted.
PredictResolved(models, c, now, features, auto, resolved, key) ==
    IF auto /\ resolved = NoneName
    THEN Outcome("ValueError", "NoSuitableModel", FALSE, NoResult, c,
                 <<>>, TRUE, TRUE, NoneName, NoKey, FALSE)
    ELSE IF ~HasKey(models, resolved)
    THEN Outcome("ValueError", "ModelNotFound", FALSE, NoResult, c,
                 <<>>, auto, TRUE, resolved, NoKey, FALSE)
    ELSE IF CacheHas(c, key) /\ Fresh(now, CacheGet(c, key).ts)
    THEN Outcome("none", "none", FALSE, CacheGet(c, key).result, c,
                 <<>>, auto, TRUE, resolved, key, TRUE)
    ELSE [PredictRun(models, c, now, auto, resolved, key,
                     MMPredict(models, resolved, features))
            EXCEPT !.expired = CacheHas(c, key)]

IsAuto(model_name) == model_name = NoneName \/ model_name \in AutoSpellings

PredictNamed(models, c, now, features, auto, resolved) ==
    PredictResolved(models, c, now, features, auto, resolved,
                    CacheKey(resolved, features))

\* MLService.predict(features, model_name)
ServicePredict(models, c, now, features, model_name) ==
    IF features = <<>>
    THEN Outcome("ValueError", "EmptyFeatureVector", FALSE, NoResult, c,
                 <<>>, FALSE, FALSE, NoneName, NoKey, FALSE)
    ELSE PredictNamed(models, c, now, features, IsAuto(model_name),
                      IF IsAuto(model_name)
                      THEN model_selector(models, features)
                      ELSE model_name)

\* MLService.ensemble_predict(features); qc is the derived pair
ServiceEnsemble(models, c, features, qc) ==
    LET run == MMEnsemble(models, features)
    IN  IF run.exc # "none"
        THEN Outcome(run.exc, run.error, run.error = "Unexpected", NoResult,
                     c, run.ran, FALSE, TRUE, NoneName, NoKey, FALSE)
        ELSE Outcome("none", "none", FALSE,
                     [run.result EXCEPT !.quality_score = qc[1],
                                        !.contamination_index = qc[2]],
                     c, run.ran, FALSE, TRUE, NoneName, NoKey, FALSE)

EnsembleQualityOf(models, features) ==
    LET run == MMEnsemble(models, features)
    IN  IF run.exc # "none" THEN {<<0, 0>>}
        ELSE EnsembleQualityChoices(run.result.prediction,
                                    run.result.weight_sum)

-----------------------------------------------------------------------------
(* The process: startup, the /predict, /train/{dataset} and /train_all      *)
(* routes, and the clock                                                    *)

\* What a training run writes for a dataset: pipeline.save always writes
\* the metadata sidecar with the feature columns.
TrainedArtifact(dataset, version) ==
    CASE dataset = "dataset1" ->
           Artifact(dataset, "regressor", TRUE, <<"a", "b">>, version,
                    Chain(20000, 15000))
      [] dataset = "dataset2" ->
           Artifact(dataset, "classifier", TRUE, <<"b", "a">>, version,
                    Chain(0, 1000))
      [] dataset = "dataset3" ->
           Artifact(dataset, "regressor", TRUE, <<"b">>, version,
                    Chain(10000, 40000))
      [] dataset = "dataset4" ->
           Artifact(dataset, "regressor", TRUE, <<"a">>, version,
                    Chain(150000, 200000))
      [] OTHER ->
           Artifact(dataset, "regressor", TRUE, <<"a">>, version,
                    Chain(5000, 5000))

\* A file without metadata sidecar: UnifiedMLPipeline.load leaves
\* feature_columns = None and model_type = 'regressor'.
LegacyArtifact == Artifact("legacy", "regressor", FALSE, <<>>, 1, Chain(0, 1000))

\* The model directory at startup, in listing order
StartupListings ==
    { <<>>,
      <<TrainedArtifact("dataset1", 1), TrainedArtifact("dataset2", 1)>>,
      <<TrainedArtifact("dataset3", 1), LegacyArtifact>>,
      <<TrainedArtifact("dataset4", 1)>> }

TrainAllKeys == <<"dataset1", "dataset2", "dataset3", "dataset4">>
TrainKeys == {"dataset1", "dataset3"}

\* self.models[dataset_name] = pipeline
DictSet(models, art) ==
    IF HasKey(models, art.key)
    THEN [i \in 1..Len(models) |->
             IF models[i].key = art.key THEN art ELSE models[i]]
    ELSE Append(models, art)

\* For comparison: the entry is stored before the file is read.
LoadFileStoreFirst(models, f) ==
    IF f.file = "badname" THEN models ELSE DictSet(models, f)

\* One pass of the loop of _load_all_models: a stem with other than two
\* parts is passed over; UnifiedMLPipeline.load raises on an unreadable
\* pickle or sidecar and on metadata['model_type'] of a sidecar without it,
\* and the except clause logs and goes on; otherwise the entry is stored.
LoadFile(models, f) ==
    IF f.file = "badname" THEN models
    ELSE IF f.file \in {"corrupt", "badmeta", "nokind"} THEN models
    ELSE DictSet(models, f)

\* ModelManager._load_all_models, the loop over the listing
RECURSIVE LoadAllModels(_)
LoadAllModels(fs) ==
    IF fs = <<>> THEN <<>>
    ELSE LoadFile(LoadAllModels(SubSeq(fs, 1, Len(fs) - 1)), fs[Len(fs)])

\* ModelManager._load_all_models on a directory that may not exist
LoadDirectory(dir) ==
    IF ~dir.exists THEN <<>> ELSE LoadAllModels(dir.listing)

\* ModelManager.get_available_models
GetAvailableModels(models) ==
    [i \in 1..Len(models) |->
        [dataset_name |-> models[i].key, model_type |-> models[i].model_type,
         has_feature_columns |-> models[i].hasCols,
         feature_columns |-> models[i].cols]]

NewestVersion(fs, dataset) ==
    LET vs == {fs[i].version : i \in {j \in 1..Len(fs) : fs[j].key = dataset}}
    IN  IF vs = {} THEN 0 ELSE CHOOSE v \in vs : \A w \in vs : w <= v

\* get_model_manager(): builds a manager only while the module global of
\* model_manager.py is None
GetModelManager(mg, mgrs, fs) ==
    IF mg = 0
    THEN [mmGlobal |-> Len(mgrs) + 1,
          managers |-> Append(mgrs, [models |-> LoadAllModels(fs)])]
    ELSE [mmGlobal |-> mg, managers |-> mgrs]

\* ml_service.model_manager.models
ServiceModels == managers[svcManager].models

NoRequest ==
    [op |-> "none", features |-> <<>>, model_name |-> NoneName,
     use_ensemble |-> FALSE, dataset |-> NoneName, at |-> 0,
     status |-> 0, error |-> "none", detail |-> "none", leaks |-> FALSE,
     result |-> NoResult, ran |-> <<>>, selectorCalled |-> FALSE,
     lookedUp |-> FALSE, resolved |-> NoneName, cacheKey |-> NoKey,
     hit |-> FALSE, expired |-> FALSE, cleared |-> 0]

SelIdle == [models |-> <<>>, features |-> <<>>, result |-> NoneName,
            called |-> FALSE]

QualIdle == [model_name |-> NoneName, model_type |-> "none", prediction |-> 0,
             has_confidence |-> FALSE, confidence |-> 0,
             quality_score |-> 0, contamination_index |-> 0, derived |-> FALSE]

RegIdle == [dir |-> [exists |-> FALSE, listing |-> <<>>], built |-> FALSE,
            models |-> <<>>, call |-> "none", features |-> <<>>,
            name |-> NoneName, selected |-> NoneName, outcome |-> "none",
            error |-> "none", listed |-> <<>>]

\* the clients the rate limiter tells apart (request.client.host)
RlKeys == {"ip1", "ip2"}

\* no call of the rate limiter made yet
RlNoCall == [op |-> "none", key |-> "none", at |-> 0, allowed |-> FALSE,
             retry_after |-> 0, usage |-> 0,
             before |-> [k \in RlKeys |-> <<>>],
             pending |-> [denied |-> FALSE, at |-> 0, retry_after |-> 0]]

\* _request_log = {} at import; an absent key reads as the empty list
RlIdle == [log |-> [k \in RlKeys |-> <<>>], now |-> 0,
           granted |-> [k \in RlKeys |-> <<>>],
           lastOf |-> [k \in RlKeys |->
                         [denied |-> FALSE, at |-> 0, retry_after |-> 0]],
           last |-> RlNoCall]

\* no call made on the MQTT service yet
MqNoCall == [op |-> "none", ret |-> "None", clientBefore |-> 0,
             connBefore |-> FALSE, publishedBefore |-> 0,
             subsBefore |-> {}, callbackBefore |-> 0]

\* MQTTService.__init__: client 0 is None, message_callback 0 is None;
\* made counts the paho clients built, loops holds those whose network
\* loop runs, subs the subscriptions made, published the client.publish
\* calls, status the last event that bears on the connection.
MqIdle == [client |-> 0, is_connected |-> FALSE, message_callback |-> 0,
           made |-> 0, loops |-> {}, subs |-> {}, published |-> 0,
           status |-> "none", last |-> MqNoCall]

OptIdle ==
    [op |-> "none", quality_score |-> 0, contamination_index |-> 0,
     sensor_data |-> <<>>, target_quality |-> "environmental",
     ro_used |-> FALSE, called |-> FALSE, result |-> [none |-> TRUE]]

\* TreatmentOptimizerEngine.__init__: four sub-optimizer objects, none of
\* which has an attribute
EngineNew ==
    [primary_optimizer |-> <<>>, secondary_optimizer |-> <<>>,
     tertiary_optimizer |-> <<>>, reuse_engine |-> <<>>]

EngIdle == [self |-> EngineNew, calls |-> <<>>]

\* The requests explored
ReqFeatures ==
    { <<>>, <<<<"a", 1>>>>, <<<<"b", 2>>>>,
      <<<<"a", 1>>, <<"b", 2>>>>, <<<<"b", 2>>, <<"a", 1>>>> }
\* the same name/value pairs in every key order
KeyOrders(f) ==
    {g \in [1..Len(f) -> Range(f)] : Range(g) = Range(f)}

ReqModelNames ==
    {NoneName, "auto", "missing"} \cup {files[i].key : i \in 1..Len(files)}

Init ==
    /\ files \in StartupListings
    /\ managers = <<[models |-> LoadAllModels(files)]>>
    /\ mmGlobal = 1
    /\ routesGlobal = -1
    /\ svcManager = 1
    /\ cache = {}
    /\ clock = 0
    /\ last = NoRequest
    /\ sel = SelIdle
    /\ qual = QualIdle
    /\ opt = OptIdle
    /\ eng = EngIdle
    /\ reg = RegIdle
    /\ rl = RlIdle
    /\ mq = MqIdle

\* For comparison: every failure answered as a server fault.
StatusServerFault(exc) == IF exc = "none" THEN 200 ELSE 500

\* the outer handler of the route: except Exception -> HTTPException(500)
EnsembleStatus(exc) == IF exc = "none" THEN 200 ELSE 500

\* the inner handler: except ValueError -> HTTPException(400); the service
\* raises nothing but ValueError
SingleStatus(exc) == IF exc = "none" THEN 200 ELSE 400

\* POST /predict, single-model mode
PredictSingle ==
    \E features \in ReqFeatures, model_name \in ReqModelNames :
      \E o \in {ServicePredict(ServiceModels, cache, clock, features,
                                model_name)} :
            /\ Cardinality(o.cache) <= MaxCache
            /\ cache' = o.cache
            /\ last' = [NoRequest EXCEPT
                   !.op = "predict", !.features = features,
                   !.model_name = model_name, !.at = clock,
                   \* except ValueError: HTTPException(400, detail=str(ve))
                   !.status = SingleStatus(o.exc),
                   !.detail = IF o.exc = "none" THEN "none" ELSE "str(ve)",
                   !.leaks = o.leaks, !.error = o.error,
                   !.result = o.result, !.ran = o.ran,
                   !.selectorCalled = o.selectorCalled,
                   !.lookedUp = o.lookedUp, !.resolved = o.resolved,
                   !.cacheKey = o.cacheKey, !.hit = o.hit,
                   !.expired = o.expired]
            /\ UNCHANGED <<files, managers, mmGlobal, routesGlobal,
                           svcManager, clock, sel, qual, opt, eng, reg, rl, mq>>

\* POST /predict with use_ensemble
PredictEnsemble ==
    \E features \in ReqFeatures :
      \E qc \in EnsembleQualityOf(ServiceModels, features) :
      \E o \in {ServiceEnsemble(ServiceModels, cache, features, qc)} :
            /\ last' = [NoRequest EXCEPT
                   !.op = "predict", !.features = features,
                   !.use_ensemble = TRUE, !.at = clock,
                   \* except Exception: HTTPException(500, fixed text)
                   !.status = EnsembleStatus(o.exc),
                   !.detail = IF o.exc = "none" THEN "none"
                              ELSE "Failed to make prediction",
                   !.leaks = FALSE, !.error = o.error,
                   !.result = o.result, !.ran = o.ran,
                   !.selectorCalled = o.selectorCalled,
                   !.lookedUp = o.lookedUp]
            /\ UNCHANGED <<files, managers, mmGlobal, routesGlobal,
                           svcManager, cache, clock, sel, qual, opt, eng, reg, rl, mq>>

\* The reload at the end of both training routes: the import binds the
\* global of routes.py, the assignment sets that global to None, and
\* get_model_manager() reads the global of model_manager.py.
Reload(fs) ==
    LET got == GetModelManager(mmGlobal, managers, fs)
    IN  /\ routesGlobal' = 0
        /\ mmGlobal' = got.mmGlobal
        /\ managers' = got.managers

\* POST /train/{dataset}
TrainModel ==
    \E dataset \in TrainKeys, csvFound \in BOOLEAN :
        /\ Len(files) < Len(managers[1].models) + MaxTrained
        /\ IF csvFound
           THEN /\ files' = Append(files,
                       TrainedArtifact(dataset, NewestVersion(files, dataset) + 1))
                /\ Reload(files')
                /\ last' = [NoRequest EXCEPT !.op = "train",
                               !.dataset = dataset, !.at = clock,
                               !.status = 200]
           ELSE \* HTTPException(404) is caught by except Exception
                /\ last' = [NoRequest EXCEPT !.op = "train",
                               !.dataset = dataset, !.at = clock,
                               !.status = 500, !.detail = "str(e)"]
                /\ UNCHANGED <<files, managers, mmGlobal, routesGlobal, opt, eng, reg, rl, mq>>
        /\ UNCHANGED <<svcManager, cache, clock, sel, qual, opt, eng, reg, rl, mq>>

RECURSIVE TrainEach(_, _, _)
TrainEach(fs, keys, found) ==
    IF keys = <<>> THEN fs
    ELSE TrainEach(IF keys[1] \in found
                   THEN Append(fs, TrainedArtifact(keys[1],
                                      NewestVersion(fs, keys[1]) + 1))
                   ELSE fs,
                   Tail(keys), found)

\* POST /train_all: every dataset whose CSV is found is trained
TrainAll ==
    \E found \in SUBSET Range(TrainAllKeys) :
        /\ Len(files) + Cardinality(found)
               <= Len(managers[1].models) + MaxTrained
        /\ files' = TrainEach(files, TrainAllKeys, found)
        /\ Reload(files')
        /\ last' = [NoRequest EXCEPT !.op = "train_all", !.at = clock,
                       !.status = 200]
        /\ UNCHANGED <<svcManager, cache, clock, sel, qual, opt, eng, reg, rl, mq>>

\* time passes
Tick ==
    /\ clock + TickStep <= MaxClock
    /\ clock' = clock + TickStep
    /\ UNCHANGED <<files, managers, mmGlobal, routesGlobal, svcManager,
                   cache, last, sel, qual, opt, eng, reg, rl, mq>>

\* MLService.clear_cache(): the cache is emptied and the number of entries
\* it held is returned
ClearCache ==
    /\ cache' = {}
    /\ last' = [NoRequest EXCEPT !.op = "clear_cache", !.at = clock,
                                 !.cleared = Cardinality(cache)]
    /\ UNCHANGED <<files, managers, mmGlobal, routesGlobal, svcManager,
                   clock, sel, qual, opt, eng, reg, rl, mq>>

Next ==
    \/ PredictSingle
    \/ PredictEnsemble
    \/ TrainModel
    \/ TrainAll
    \/ ClearCache
    \/ Tick

Spec == Init /\ [][Next]_vars

-----------------------------------------------------------------------------
(* The treatment optimizers (services/optimizers.py). Numbers in a result  *)
(* are counts of the last decimal place kept: round(x, 2) is in hundredths, *)
(* round(x, 0) in units. A recommendation string is the pair of its fixed   *)
(* text and the formatted number.                                           *)

\* For comparison: a settling time allowed up to 200 minutes.
PrimaryValuesLoose(cf, flow) ==
    [settling |-> Clamp(FMulInt(FAdd(FOfInt(1), FMulInt(cf, 2)), 60), 30, 200),
     coagulant |->
         Clamp(FDivInt(FMul(FMulInt(FAdd(FOfInt(1),
                                         FMul(cf, FOfHundredths(150))), 50),
                            flow), 1000), 20, 200),
     svi |-> Clamp(FAdd(FOfInt(80), FMulInt(cf, 50)), 50, 200)]

\* PrimaryTreatmentOptimizer.optimize: the three clamped values
PrimaryValues(cf, flow) ==
    [settling |-> Clamp(FMulInt(FAdd(FOfInt(1), FMulInt(cf, 2)), 60), 30, 180),
     coagulant |->
         Clamp(FDivInt(FMul(FMulInt(FAdd(FOfInt(1),
                                         FMul(cf, FOfHundredths(150))), 50),
                            flow), 1000), 20, 200),
     svi |-> Clamp(FAdd(FOfInt(80), FMulInt(cf, 50)), 50, 200)]

PrimaryResult(v) ==
    [settling_time_min |-> RoundDec(v.settling, 2),
     coagulant_dose_ml |-> RoundDec(v.coagulant, 2),
     sludge_volume_index |-> RoundDec(v.svi, 2),
     recommendations |->
         << <<"Maintain settling time of (.0f) minutes", RoundDec(v.settling, 0)>>,
            <<"Apply coagulant dose of (.1f) mL", RoundDec(v.coagulant, 1)>>,
            <<"Monitor SVI - target: (.0f) mL/g", RoundDec(v.svi, 0)>> >>]

PrimaryOptimize(quality_score, contamination_index, flow_rate_lpm) ==
    PrimaryResult(PrimaryValues(FDivInt(contamination_index, 100),
                                flow_rate_lpm))

\* SecondaryTreatmentOptimizer.optimize
SecondaryValues(cf, bod_reduction_needed, cod_reduction_needed) ==
    [aeration |->
         Clamp(FMulInt(FAdd(FOfInt(1),
                            FAdd(FDivInt(bod_reduction_needed, 200),
                                 FDivInt(cod_reduction_needed, 400))), 240),
               180, 480),
     do_target |-> Clamp(FAdd(FOfHundredths(250), FMul(cf, FOfInt(1))), 2, 4),
     blower |->
         Clamp(FMulInt(FAdd(FOfInt(1), FMul(cf, FOfHundredths(50))), 1000),
               800, 1500),
     sludge_age |-> Clamp(FAdd(FOfInt(8), FMulInt(cf, 5)), 5, 15)]

SecondaryResult(v) ==
    [aeration_time_min |-> RoundDec(v.aeration, 2),
     do_target_ppm |-> RoundDec(v.do_target, 2),
     blower_speed_rpm |-> RoundDec(v.blower, 0),
     sludge_age_days |-> RoundDec(v.sludge_age, 2),
     recommendations |->
         << <<"Aerate for (.0f) minutes", RoundDec(v.aeration, 0)>>,
            <<"Maintain DO at (.2f) mg/L", RoundDec(v.do_target, 2)>>,
            <<"Set blower speed to (.0f) RPM", RoundDec(v.blower, 0)>>,
            <<"Target sludge age: (.1f) days", RoundDec(v.sludge_age, 1)>> >>]

SecondaryOptimize(quality_score, contamination_index, current_bod, current_cod) ==
    SecondaryResult(
        SecondaryValues(FDivInt(contamination_index, 100),
                        PyMax(FOfInt(0), FSub(current_bod, FOfInt(30))),
                        PyMax(FOfInt(0), FSub(current_cod, FOfInt(100)))))

\* TertiaryTreatmentOptimizer.optimize
TertiaryValues(quality_factor, cf) ==
    [filtration |->
         Clamp(FMulInt(FSub(FOfInt(1), FMul(quality_factor, FOfHundredths(30))),
                       10), 5, 15),
     chlorine |-> Clamp(FMulInt(FAdd(FOfInt(1), FMul(cf, FOfInt(1))), 2), 1, 5)]

\* For comparison: RO also at contamination exactly 70 or quality exactly 50.
RoRequiredInclusive(quality_score, contamination_index, target_quality) ==
    \/ target_quality = "drinking"
    \/ ~FLess(contamination_index, FOfInt(70))
    \/ ~FLess(FOfInt(50), quality_score)

\* target_quality == "drinking" or contamination_index > 70 or
\* quality_score < 50
RoRequired(quality_score, contamination_index, target_quality) ==
    \/ target_quality = "drinking"
    \/ FLess(FOfInt(70), contamination_index)
    \/ FLess(quality_score, FOfInt(50))

TertiaryResult(v, ro_required) ==
    [filtration_rate_lpm |-> RoundDec(v.filtration, 2),
     chlorine_dose_ml |-> RoundDec(v.chlorine, 2),
     ro_trigger |-> ro_required,
     recommendations |->
         << <<"Set filtration rate to (.1f) LPM/m2", RoundDec(v.filtration, 1)>>,
            <<"Apply chlorine dose of (.2f) mg/L", RoundDec(v.chlorine, 2)>>,
            <<IF ro_required THEN "RO required" ELSE "RO not required", 0>> >>]

TertiaryOptimize(quality_score, contamination_index, target_quality) ==
    TertiaryResult(
        TertiaryValues(FDivInt(FSub(FOfInt(100), quality_score), 100),
                       FDivInt(contamination_index, 100)),
        RoRequired(quality_score, contamination_index, target_quality))

ReuseBranch(reuse_type, recovery_percentage, description, q, c) ==
    [reuse_type |-> reuse_type, recovery_percentage |-> recovery_percentage,
     description |-> description,
     quality_score |-> RoundDec(q, 2), contamination_index |-> RoundDec(c, 2)]

\* For comparison: a cascade that tries the industrial rule before the
\* drinking rule.
DetermineReuseIndustrialFirst(quality_score, contamination_index, ro_used) ==
    IF ~FLess(quality_score, FOfInt(85))
       /\ FLess(contamination_index, FOfInt(20))
    THEN ReuseBranch("industrial", 90,
                     "Suitable for industrial reuse (cooling, process water)",
                     quality_score, contamination_index)
    ELSE IF ro_used /\ ~FLess(quality_score, FOfInt(95))
    THEN ReuseBranch("drinking", 75,
                     "Suitable for drinking water after RO treatment",
                     quality_score, contamination_index)
    ELSE IF ~FLess(quality_score, FOfInt(70))
            /\ FLess(contamination_index, FOfInt(40))
    THEN ReuseBranch("irrigation", 85, "Suitable for agricultural irrigation",
                     quality_score, contamination_index)
    ELSE IF ~FLess(quality_score, FOfInt(60))
            /\ FLess(contamination_index, FOfInt(60))
    THEN ReuseBranch("environmental", 95, "Suitable for environmental discharge",
                     quality_score, contamination_index)
    ELSE ReuseBranch("environmental", 90,
                     "Requires further treatment before reuse",
                     quality_score, contamination_index)

\* FinalReuseEngine.determine_reuse
determine_reuse(quality_score, contamination_index, ro_used) ==
    IF ro_used /\ ~FLess(quality_score, FOfInt(95))
    THEN ReuseBranch("drinking", 75,
                     "Suitable for drinking water after RO treatment",
                     quality_score, contamination_index)
    ELSE IF ~FLess(quality_score, FOfInt(85))
            /\ FLess(contamination_index, FOfInt(20))
    THEN ReuseBranch("industrial", 90,
                     "Suitable for industrial reuse (cooling, process water)",
                     quality_score, contamination_index)
    ELSE IF ~FLess(quality_score, FOfInt(70))
            /\ FLess(contamination_index, FOfInt(40))
    THEN ReuseBranch("irrigation", 85, "Suitable for agricultural irrigation",
                     quality_score, contamination_index)
    ELSE IF ~FLess(quality_score, FOfInt(60))
            /\ FLess(contamination_index, FOfInt(60))
    THEN ReuseBranch("environmental", 95, "Suitable for environmental discharge",
                     quality_score, contamination_index)
    ELSE ReuseBranch("environmental", 90,
                     "Requires further treatment before reuse",
                     quality_score, contamination_index)

\* For comparison: a reading that is absent counted as 0.
SensorGetZero(sensor_data, key, default) ==
    IF key \in Keys(sensor_data) THEN FOfInt(Get(sensor_data, key))
    ELSE FOfInt(0)

\* sensor_data.get(key, default); readings are whole numbers
SensorGet(sensor_data, key, default) ==
    IF key \in Keys(sensor_data) THEN FOfInt(Get(sensor_data, key))
    ELSE FOfInt(default)

Combine(q, c, primary_results, secondary_results, tertiary_results, reuse_results) ==
    [quality_score |-> RoundDec(q, 2),
     contamination_index |-> RoundDec(c, 2),
     primary_treatment |-> primary_results,
     secondary_treatment |-> secondary_results,
     tertiary_treatment |-> tertiary_results,
     final_reuse |-> reuse_results,
     dosing_ml |-> [coagulant |-> primary_results.coagulant_dose_ml,
                    chlorine |-> tertiary_results.chlorine_dose_ml],
     recommended_process_steps |->
         primary_results.recommendations \o secondary_results.recommendations
             \o tertiary_results.recommendations,
     expected_recovery_percentage |-> reuse_results.recovery_percentage]

\* For comparison: the reuse determination left at its default ro_used=False.
CombineWithDefaultReuse(q, c, primary_results, secondary_results, tertiary_results) ==
    Combine(q, c, primary_results, secondary_results, tertiary_results,
            determine_reuse(q, c, FALSE))

CombineWithReuse(q, c, primary_results, secondary_results, tertiary_results) ==
    Combine(q, c, primary_results, secondary_results, tertiary_results,
            determine_reuse(q, c, tertiary_results.ro_trigger))

\* TreatmentOptimizerEngine.optimize_all; sensor_data None and {} are both
\* the empty mapping
optimize_all(quality_score, contamination_index, sensor_data, target_quality) ==
    CombineWithReuse(
        quality_score, contamination_index,
        PrimaryOptimize(quality_score, contamination_index,
                        SensorGet(sensor_data, "flow_rate_lpm", 1000)),
        SecondaryOptimize(quality_score, contamination_index,
                          SensorGet(sensor_data, "bod", 200),
                          SensorGet(sensor_data, "cod", 400)),
        TertiaryOptimize(quality_score, contamination_index, target_quality))

-----------------------------------------------------------------------------
(* model_selector on its own: registries and requests drawn from small sets *)

SelCatalog ==
    { Artifact("dataset1", "regressor", TRUE, <<"a", "b">>, 1, Chain(0, 1000)),
      Artifact("dataset2", "classifier", TRUE, <<"a", "b", "c">>, 1, Chain(0, 1000)),
      Artifact("dataset3", "regressor", TRUE, <<"b", "c", "d", "a">>, 1, Chain(0, 1000)),
      Artifact("dataset4", "regressor", FALSE, <<>>, 1, Chain(0, 1000)),
      Artifact("dataset5", "regressor", TRUE, <<>>, 1, Chain(0, 1000)),
      Artifact("dataset6", "regressor", TRUE, <<"d">>, 1, Chain(0, 1000)) }

SelRegistries ==
    {m \in UNION {[1..n -> SelCatalog] : n \in 0..MaxSelModels} :
        \A i, j \in 1..Len(m) : i # j => m[i].key # m[j].key}

\* One request per set of feature names: selection reads the names only.
SelRequests ==
    {f \in FeatureMaps(Range(AllNames), {1}, Len(AllNames)) :
        \A i, j \in 1..Len(f) : i < j => NameRank(f[i][1]) < NameRank(f[j][1])}

InitSelect ==
    /\ files = <<>>
    /\ managers = <<[models |-> <<>>]>>
    /\ mmGlobal = 1
    /\ routesGlobal = -1
    /\ svcManager = 1
    /\ cache = {}
    /\ clock = 0
    /\ last = NoRequest
    /\ sel \in {[SelIdle EXCEPT !.models = m] : m \in SelRegistries}
    /\ qual = QualIdle
    /\ opt = OptIdle
    /\ eng = EngIdle
    /\ reg = RegIdle
    /\ rl = RlIdle
    /\ mq = MqIdle

\* one call of ModelManager.model_selector(features)
Select ==
    \E f \in SelRequests :
        /\ sel' = [sel EXCEPT !.features = f,
                              !.result = model_selector(sel.models, f),
                              !.called = TRUE]
        /\ UNCHANGED <<files, managers, mmGlobal, routesGlobal, svcManager,
                       cache, clock, last, qual, opt, eng, reg, rl, mq>>

NextSelect == Select

SpecSelect == InitSelect /\ [][NextSelect]_vars

-----------------------------------------------------------------------------
(* The quality derivation on its own: raw predictions drawn from a range    *)

\* raw predictions in thousandths: a fine range near 0 and the band and
\* clamp boundaries
RawPredictions ==
    (-1..MaxRaw) \cup {99985, 100000, 100001, 150000, 199990, 200000, 250000,
                       399999, 400000, 599999, 600000}

QualRegressors ==
    {"dataset1", "dataset3", "DATASET3_uci", "dataset4", "Dataset4_wwtp",
     "dataset3_dataset4"}

\* max(predict_proba) of a classifier, in hundredths
QualConfidences == {40, 50, 60, 70, 71, 80, 100}

\* the inputs of the derivation: a model name, its type and its raw result
QualInputs ==
    {[QualIdle EXCEPT !.model_name = name, !.model_type = "regressor",
                      !.prediction = d] :
        name \in QualRegressors, d \in RawPredictions}
    \cup
    {[QualIdle EXCEPT !.model_name = "dataset2", !.model_type = "classifier",
                      !.prediction = p, !.has_confidence = hc,
                      !.confidence = IF hc THEN conf ELSE 0] :
        p \in {0, 1000}, hc \in BOOLEAN, conf \in QualConfidences}

InitQuality ==
    /\ files = <<>>
    /\ managers = <<[models |-> <<>>]>>
    /\ mmGlobal = 1
    /\ routesGlobal = -1
    /\ svcManager = 1
    /\ cache = {}
    /\ clock = 0
    /\ last = NoRequest
    /\ sel = SelIdle
    /\ qual \in QualInputs
    /\ opt = OptIdle
    /\ eng = EngIdle
    /\ reg = RegIdle
    /\ rl = RlIdle
    /\ mq = MqIdle

Derived(q, qc) ==
    [q EXCEPT !.quality_score = qc[1], !.contamination_index = qc[2],
              !.derived = TRUE]

\* the derivation for a regressor's prediction
DeriveRegressor ==
    /\ ~qual.derived
    /\ qual.model_type = "regressor"
    /\ qual' = Derived(qual, DeriveQuality(qual.model_name, qual.model_type,
                                           qual))
    /\ UNCHANGED <<files, managers, mmGlobal, routesGlobal, svcManager,
                   cache, clock, last, sel, opt, eng, reg, rl, mq>>

\* the derivation for a classifier's prediction, with or without confidence
DeriveClassifier ==
    /\ ~qual.derived
    /\ qual.model_type = "classifier"
    /\ qual' = Derived(qual, DeriveQuality(qual.model_name, qual.model_type,
                                           qual))
    /\ UNCHANGED <<files, managers, mmGlobal, routesGlobal, svcManager,
                   cache, clock, last, sel, opt, eng, reg, rl, mq>>

NextQuality == DeriveRegressor \/ DeriveClassifier

SpecQuality == InitQuality /\ [][NextQuality]_vars

-----------------------------------------------------------------------------
(* The optimizers on their own: arguments drawn from a grid. Scores are in  *)
(* hundredths, sensor readings whole numbers.                               *)

\* quality scores at and beside every threshold, and out of range
OptQualities ==
    {-2000, 0, 4999, 5000, 5999, 6000, 6999, 7000, 8499, 8500, 9499, 9500,
     10000, 15000}

\* contamination indexes: the first hundredths, every threshold, and out
\* of range on both sides
OptContaminations ==
    (0..MaxFineContamination)
    \cup {-30000, -5000, -1, 1999, 2000, 3999, 4000, 5999, 6000, 7000, 7001,
          10000, 10001, 100000}

\* sensor_data: absent, partly given, in and out of range
OptSensors ==
    { <<>>,
      << <<"flow_rate_lpm", 250>> >>,
      << <<"flow_rate_lpm", 5>>, <<"bod", 0>>, <<"cod", -50>> >>,
      << <<"flow_rate_lpm", 777>>, <<"bod", 131>>, <<"cod", 1013>> >>,
      << <<"flow_rate_lpm", 100000>>, <<"bod", 2000>> >> }

OptTargets == {"drinking", "environmental"}

OptInputs ==
    {[OptIdle EXCEPT !.quality_score = q, !.contamination_index = c,
                     !.sensor_data = s, !.target_quality = t] :
        q \in OptQualities, c \in OptContaminations, s \in OptSensors,
        t \in OptTargets}

InitOptimize ==
    /\ files = <<>>
    /\ managers = <<[models |-> <<>>]>>
    /\ mmGlobal = 1
    /\ routesGlobal = -1
    /\ svcManager = 1
    /\ cache = {}
    /\ clock = 0
    /\ last = NoRequest
    /\ sel = SelIdle
    /\ qual = QualIdle
    /\ opt \in OptInputs
    /\ eng = EngIdle
    /\ reg = RegIdle
    /\ rl = RlIdle
    /\ mq = MqIdle

\* one call of TreatmentOptimizerEngine.optimize_all
OptimizeAll ==
    /\ ~opt.called
    /\ opt' = [opt EXCEPT
                  !.op = "optimize_all", !.called = TRUE,
                  !.result = optimize_all(FOfHundredths(opt.quality_score),
                                          FOfHundredths(opt.contamination_index),
                                          opt.sensor_data, opt.target_quality)]
    /\ UNCHANGED <<files, managers, mmGlobal, routesGlobal, svcManager,
                   cache, clock, last, sel, qual, eng, reg, rl, mq>>

\* one call of FinalReuseEngine.determine_reuse, with or without RO
DetermineReuse ==
    \E ro_used \in BOOLEAN :
        /\ ~opt.called
        /\ opt' = [opt EXCEPT
                      !.op = "determine_reuse", !.called = TRUE,
                      !.ro_used = ro_used,
                      !.result =
                          determine_reuse(FOfHundredths(opt.quality_score),
                                          FOfHundredths(opt.contamination_index),
                                          ro_used)]
        /\ UNCHANGED <<files, managers, mmGlobal, routesGlobal, svcManager,
                       cache, clock, last, sel, qual, eng, reg, rl, mq>>

NextOptimize == OptimizeAll \/ DetermineReuse

SpecOptimize == InitOptimize /\ [][NextOptimize]_vars

-----------------------------------------------------------------------------
(* One engine object called several times *)

\* the arguments of the calls made on the engine
EngInputs ==
    {[OptIdle EXCEPT !.quality_score = x[1], !.contamination_index = x[2],
                     !.sensor_data = x[3], !.target_quality = x[4]] :
        x \in { <<8500, 1500, <<>>, "environmental">>,
                <<9700, 300, <<>>, "drinking">>,
                <<3000, 7000, << <<"bod", 350>> >>, "environmental">>,
                <<15000, -2000, << <<"flow_rate_lpm", 5>> >>, "irrigation">>,
                <<6550, 3450, << <<"cod", 900>>, <<"bod", 10>> >>,
                  "industrial">> }}

\* For comparison: an engine that remembers the quality score of its
\* previous call and reports it for the next one.
EngineOptimizeAllRemembering(self, input) ==
    [self |-> [self EXCEPT !.reuse_engine = <<input.quality_score>>],
     result |->
         optimize_all(FOfHundredths(IF self.reuse_engine = <<>>
                                    THEN input.quality_score
                                    ELSE self.reuse_engine[1]),
                      FOfHundredths(input.contamination_index),
                      input.sensor_data, input.target_quality)]

\* engine.optimize_all(...): the object after the call and the value returned
EngineOptimizeAll(self, input) ==
    [self |-> self,
     result |-> optimize_all(FOfHundredths(input.quality_score),
                             FOfHundredths(input.contamination_index),
                             input.sensor_data, input.target_quality)]

InitEngine ==
    /\ files = <<>>
    /\ managers = <<[models |-> <<>>]>>
    /\ mmGlobal = 1
    /\ routesGlobal = -1
    /\ svcManager = 1
    /\ cache = {}
    /\ clock = 0
    /\ last = NoRequest
    /\ sel = SelIdle
    /\ qual = QualIdle
    /\ opt = OptIdle
    /\ eng = EngIdle
    /\ reg = RegIdle
    /\ rl = RlIdle
    /\ mq = MqIdle

\* one more call on the same engine object
EngineCall ==
    \E input \in EngInputs :
      \E o \in {EngineOptimizeAll(eng.self, input)} :
        /\ Len(eng.calls) < MaxCalls
        /\ eng' = [self |-> o.self,
                   calls |-> Append(eng.calls,
                                    [input |-> input, result |-> o.result])]
        /\ UNCHANGED <<files, managers, mmGlobal, routesGlobal, svcManager,
                       cache, clock, last, sel, qual, opt, reg, rl, mq>>

NextEngine == EngineCall

SpecEngine == InitEngine /\ [][NextEngine]_vars

-----------------------------------------------------------------------------
(* ModelManager() on a directory of readable and unreadable files *)

MaxDirFiles == 3

\* the files a model directory may hold; a file name is its key and version
DirFiles ==
    { TrainedArtifact("dataset1", 1),
      TrainedArtifact("dataset1", 2),
      TrainedArtifact("dataset3", 1),
      LegacyArtifact,
      Malformed(TrainedArtifact("dataset1", 3), "corrupt"),
      Malformed(TrainedArtifact("dataset3", 2), "badmeta"),
      Malformed(TrainedArtifact("dataset4", 1), "nokind"),
      Malformed(TrainedArtifact("dataset2", 1), "badname") }

\* listings of distinct files, in any order glob may produce
DirListings ==
    UNION { {l \in [1..n -> DirFiles] :
                \A i, j \in 1..n : i # j => l[i] # l[j]} : n \in 0..MaxDirFiles }

ModelDirs ==
    {[exists |-> FALSE, listing |-> <<>>]} \cup
    {[exists |-> TRUE, listing |-> l] : l \in DirListings}

\* names a caller may ask predict for
DirNames == {f.key : f \in DirFiles} \cup {"absent"}

InitLoad ==
    /\ files = <<>>
    /\ managers = <<[models |-> <<>>]>>
    /\ mmGlobal = 1
    /\ routesGlobal = -1
    /\ svcManager = 1
    /\ cache = {}
    /\ clock = 0
    /\ last = NoRequest
    /\ sel = SelIdle
    /\ qual = QualIdle
    /\ opt = OptIdle
    /\ eng = EngIdle
    /\ reg \in {[RegIdle EXCEPT !.dir = d] : d \in ModelDirs}
    /\ rl = RlIdle
    /\ mq = MqIdle

\* ModelManager.__init__
Construct ==
    /\ ~reg.built
    /\ reg' = [reg EXCEPT !.built = TRUE, !.models = LoadDirectory(reg.dir)]
    /\ UNCHANGED <<files, managers, mmGlobal, routesGlobal, svcManager,
                   cache, clock, last, sel, qual, opt, eng, rl, mq>>

\* one call of model_selector on the built manager
CallSelector ==
    \E f \in ReqFeatures :
        /\ reg.built /\ reg.call = "none"
        /\ reg' = [reg EXCEPT !.call = "model_selector", !.features = f,
                              !.selected = model_selector(reg.models, f)]
        /\ UNCHANGED <<files, managers, mmGlobal, routesGlobal, svcManager,
                       cache, clock, last, sel, qual, opt, eng, rl, mq>>

\* one call of predict on the built manager
CallPredict ==
    \E n \in DirNames, f \in ReqFeatures :
      \E o \in {MMPredict(reg.models, n, f)} :
        /\ reg.built /\ reg.call = "none"
        /\ reg' = [reg EXCEPT !.call = "predict", !.features = f, !.name = n,
                              !.outcome = o.exc, !.error = o.error]
        /\ UNCHANGED <<files, managers, mmGlobal, routesGlobal, svcManager,
                       cache, clock, last, sel, qual, opt, eng, rl, mq>>

\* one call of ensemble_predict on the built manager
CallEnsemble ==
    \E f \in ReqFeatures :
      \E o \in {MMEnsemble(reg.models, f)} :
        /\ reg.built /\ reg.call = "none"
        /\ reg' = [reg EXCEPT !.call = "ensemble_predict", !.features = f,
                              !.outcome = o.exc, !.error = o.error]
        /\ UNCHANGED <<files, managers, mmGlobal, routesGlobal, svcManager,
                       cache, clock, last, sel, qual, opt, eng, rl, mq>>

\* one call of get_available_models on the built manager
CallAvailable ==
    /\ reg.built /\ reg.call = "none"
    /\ reg' = [reg EXCEPT !.call = "get_available_models",
                          !.listed = GetAvailableModels(reg.models)]
    /\ UNCHANGED <<files, managers, mmGlobal, routesGlobal, svcManager,
                   cache, clock, last, sel, qual, opt, eng, rl, mq>>

NextLoad ==
    \/ Construct
    \/ CallSelector
    \/ CallPredict
    \/ CallEnsemble
    \/ CallAvailable

SpecLoad == InitLoad /\ [][NextLoad]_vars

-----------------------------------------------------------------------------
(* utils/rate_limiter.py: time is counted in ticks of 1/RlTicksPerSecond s *)

RlTicksPerSecond == 2
RlLimit == 2
RlWindow == 2
MaxRlClock == 5

\* int(x) for x given in ticks: whole seconds, truncated towards zero
IntSeconds(ticks) ==
    IF ticks >= 0 THEN ticks \div RlTicksPerSecond
    ELSE -((-ticks) \div RlTicksPerSecond)

\* For comparison: entries exactly one window old are dropped.
PruneStrict(history, now, window) ==
    SelectSeq(history, LAMBDA ts : ts > now - window * RlTicksPerSecond)

\* [ts for ts in history if ts >= window_start]
Prune(history, now, window) ==
    SelectSeq(history, LAMBDA ts : ts >= now - window * RlTicksPerSecond)

\* retry_after of a denied request
RetryAfter(history, now, window) ==
    LET r == IntSeconds(window * RlTicksPerSecond - (now - history[1]))
    IN  IF r < 0 THEN 1 ELSE r

\* For comparison: a denied request is recorded like an allowed one.
AllowRequestRecordingDenied(log, key, now, limit, window) ==
    LET history == Prune(log[key], now, window)
    IN  [log |-> [log EXCEPT ![key] = Append(history, now)],
         allowed |-> Len(history) < limit,
         retry_after |-> IF Len(history) >= limit
                         THEN RetryAfter(history, now, window) ELSE 0]

\* allow_request(key, limit, window) at time now
AllowRequest(log, key, now, limit, window) ==
    LET history == Prune(log[key], now, window)
    IN  IF Len(history) >= limit
        THEN [log |-> log, allowed |-> FALSE,
              retry_after |-> RetryAfter(history, now, window)]
        ELSE [log |-> [log EXCEPT ![key] = Append(history, now)],
              allowed |-> TRUE, retry_after |-> 0]

\* get_window_usage(key, window) at time now
GetWindowUsage(log, key, now, window) == Len(Prune(log[key], now, window))

InitRate ==
    /\ files = <<>>
    /\ managers = <<[models |-> <<>>]>>
    /\ mmGlobal = 1
    /\ routesGlobal = -1
    /\ svcManager = 1
    /\ cache = {}
    /\ clock = 0
    /\ last = NoRequest
    /\ sel = SelIdle
    /\ qual = QualIdle
    /\ opt = OptIdle
    /\ eng = EngIdle
    /\ reg = RegIdle
    /\ rl = RlIdle
    /\ mq = MqIdle

\* the middleware log_requests asks allow_request(client_ip)
RlAllow ==
    \E key \in RlKeys :
      \E o \in {AllowRequest(rl.log, key, rl.now, RlLimit, RlWindow)} :
        /\ rl' = [log |-> o.log,
                  now |-> rl.now,
                  granted |-> IF o.allowed
                              THEN [rl.granted EXCEPT
                                      ![key] = Append(rl.granted[key], rl.now)]
                              ELSE rl.granted,
                  lastOf |-> [rl.lastOf EXCEPT
                                ![key] = [denied |-> ~o.allowed, at |-> rl.now,
                                          retry_after |-> o.retry_after]],
                  last |-> [op |-> "allow_request", key |-> key, at |-> rl.now,
                            allowed |-> o.allowed,
                            retry_after |-> o.retry_after, usage |-> 0,
                            before |-> rl.log, pending |-> rl.lastOf[key]]]
        /\ UNCHANGED <<files, managers, mmGlobal, routesGlobal, svcManager,
                       cache, clock, last, sel, qual, opt, eng, reg, mq>>

\* a call of get_window_usage(key)
RlUsage ==
    \E key \in RlKeys :
        /\ rl' = [rl EXCEPT
                    !.last = [RlNoCall EXCEPT
                                !.op = "get_window_usage", !.key = key,
                                !.at = rl.now,
                                !.usage = GetWindowUsage(rl.log, key, rl.now,
                                                         RlWindow),
                                !.before = rl.log]]
        /\ UNCHANGED <<files, managers, mmGlobal, routesGlobal, svcManager,
                       cache, clock, last, sel, qual, opt, eng, reg, mq>>

\* time() moves forward
RlTick ==
    /\ rl.now < MaxRlClock
    /\ rl' = [rl EXCEPT !.now = rl.now + 1]
    /\ UNCHANGED <<files, managers, mmGlobal, routesGlobal, svcManager,
                   cache, clock, last, sel, qual, opt, eng, reg, mq>>

NextRate ==
    \/ RlAllow
    \/ RlUsage
    \/ RlTick

SpecRate == InitRate /\ [][NextRate]_vars

-----------------------------------------------------------------------------
(* services/mqtt_service.py: one MQTTService object and its paho clients *)

MaxClients == 2
MaxPublished == 2

MqTopics == {"plant/sensors/#", "plant/alerts"}
MqCallbacks == {1, 2}

\* 'if not self.client or not self.is_connected'
MqNotReady(m) == m.client = 0 \/ ~m.is_connected

\* what a call remembers of the state it found
MqCall(m, op, ret) ==
    [op |-> op, ret |-> ret, clientBefore |-> m.client,
     connBefore |-> m.is_connected, publishedBefore |-> m.published,
     subsBefore |-> m.subs, callbackBefore |-> m.message_callback]

\* MQTTService.connect: a new client is built and bound; when
\* client.connect raises, both except clauses reset is_connected and
\* client, and the new client's loop was never started; otherwise
\* loop_start runs and is_connected is left as it was.
Connect(m, outcome) ==
    IF outcome = "ok"
    THEN [m EXCEPT !.client = m.made + 1, !.made = m.made + 1,
                   !.loops = m.loops \cup {m.made + 1},
                   !.last = MqCall(m, "connect", "None")]
    ELSE [m EXCEPT !.client = 0, !.made = m.made + 1,
                   !.is_connected = FALSE, !.status = "connect_failed",
                   !.last = MqCall(m, "connect", "None")]

\* MQTTService._on_connect(client, userdata, flags, rc)
OnConnect(m, c, rc) ==
    IF rc = 0
    THEN [m EXCEPT !.is_connected = TRUE,
                   !.subs = m.subs \cup {<<c, "plant/sensors/#">>},
                   !.status = "on_connect_ok",
                   !.last = MqCall(m, "_on_connect", "None")]
    ELSE [m EXCEPT !.is_connected = FALSE, !.status = "on_connect_failed",
                   !.last = MqCall(m, "_on_connect", "None")]

\* MQTTService._on_disconnect(client, userdata, rc)
OnDisconnect(m) ==
    [m EXCEPT !.is_connected = FALSE, !.status = "on_disconnect",
              !.last = MqCall(m, "_on_disconnect", "None")]

\* MQTTService.disconnect: nothing is done when self.client is None;
\* raises says that loop_stop raised
Disconnect(m, raises) ==
    IF m.client = 0
    THEN [m EXCEPT !.status = "disconnect",
                   !.last = MqCall(m, "disconnect", "None")]
    ELSE [m EXCEPT !.is_connected = FALSE, !.status = "disconnect",
                   !.loops = IF raises THEN m.loops ELSE m.loops \ {m.client},
                   !.last = MqCall(m, "disconnect", "None")]

\* MQTTService.publish(topic, payload): outcome "raise" is json.dumps
\* raising, "error" a result code other than MQTT_ERR_SUCCESS
Publish(m, outcome) ==
    IF MqNotReady(m) THEN [m EXCEPT !.last = MqCall(m, "publish", "False")]
    ELSE IF outcome = "raise"
    THEN [m EXCEPT !.last = MqCall(m, "publish", "False")]
    ELSE [m EXCEPT !.published = m.published + 1,
                   !.last = MqCall(m, "publish",
                                   IF outcome = "success" THEN "True"
                                   ELSE "False")]

\* MQTTService.subscribe(topic, callback); callback 0 is None
Subscribe(m, topic, callback) ==
    IF MqNotReady(m) THEN [m EXCEPT !.last = MqCall(m, "subscribe", "None")]
    ELSE [m EXCEPT !.subs = m.subs \cup {<<m.client, topic>>},
                   !.message_callback =
                       IF callback # 0 THEN callback ELSE m.message_callback,
                   !.last = MqCall(m, "subscribe", "None")]

InitMqtt ==
    /\ files = <<>>
    /\ managers = <<[models |-> <<>>]>>
    /\ mmGlobal = 1
    /\ routesGlobal = -1
    /\ svcManager = 1
    /\ cache = {}
    /\ clock = 0
    /\ last = NoRequest
    /\ sel = SelIdle
    /\ qual = QualIdle
    /\ opt = OptIdle
    /\ eng = EngIdle
    /\ reg = RegIdle
    /\ rl = RlIdle
    /\ mq = MqIdle

MqConnect ==
    \E outcome \in {"ok", "refused", "error"} :
        /\ mq.made < MaxClients
        /\ mq' = Connect(mq, outcome)
        /\ UNCHANGED <<files, managers, mmGlobal, routesGlobal, svcManager,
                       cache, clock, last, sel, qual, opt, eng, reg, rl>>

\* the network loop of a client delivers CONNACK
MqOnConnect ==
    \E c \in mq.loops, rc \in {0, 5} :
        /\ mq' = OnConnect(mq, c, rc)
        /\ UNCHANGED <<files, managers, mmGlobal, routesGlobal, svcManager,
                       cache, clock, last, sel, qual, opt, eng, reg, rl>>

\* the network loop of a client reports the connection lost
MqOnDisconnect ==
    \E c \in mq.loops :
        /\ mq' = OnDisconnect(mq)
        /\ UNCHANGED <<files, managers, mmGlobal, routesGlobal, svcManager,
                       cache, clock, last, sel, qual, opt, eng, reg, rl>>

MqDisconnect ==
    \E raises \in BOOLEAN :
        /\ mq' = Disconnect(mq, raises)
        /\ UNCHANGED <<files, managers, mmGlobal, routesGlobal, svcManager,
                       cache, clock, last, sel, qual, opt, eng, reg, rl>>

MqPublish ==
    \E outcome \in {"success", "error", "raise"} :
        /\ mq.published < MaxPublished
        /\ mq' = Publish(mq, outcome)
        /\ UNCHANGED <<files, managers, mmGlobal, routesGlobal, svcManager,
                       cache, clock, last, sel, qual, opt, eng, reg, rl>>

MqSubscribe ==
    \E topic \in MqTopics, callback \in {0} \cup MqCallbacks :
        /\ mq' = Subscribe(mq, topic, callback)
        /\ UNCHANGED <<files, managers, mmGlobal, routesGlobal, svcManager,
                       cache, clock, last, sel, qual, opt, eng, reg, rl>>

NextMqtt ==
    \/ MqConnect
    \/ MqOnConnect
    \/ MqOnDisconnect
    \/ MqDisconnect
    \/ MqPublish
    \/ MqSubscribe

SpecMqtt == InitMqtt /\ [][NextMqtt]_vars

-----------------------------------------------------------------------------
(* Claims *)

C2_KeyOrderIndependent ==
    (last.op = "predict" /\ ~last.use_ensemble /\ last.status = 200) =>
        \A g \in KeyOrders(last.features) :
            LET art == Lookup(ServiceModels, last.resolved)
            IN  /\ CacheKey(last.resolved, g) = last.cacheKey
                /\ MMPredict(ServiceModels, last.resolved, g).ran[1].row =
                       [i \in 1..Len(art.cols) |->
                           IF art.cols[i] \in Keys(g)
                           THEN Get(g, art.cols[i]) ELSE 0]
                /\ ServicePredict(ServiceModels, {}, clock, g,
                                  last.resolved).result = last.result
                /\ ServicePredict(ServiceModels, cache, clock, g,
                                  last.resolved).result = last.result

\* a request whose two features arrive in the opposite order of the
\* artifact's columns was answered by running the model
C2_Witness ==
    /\ last.op = "predict" /\ ~last.use_ensemble /\ last.status = 200
    /\ ~last.hit
    /\ Len(last.features) = 2
    /\ Lookup(ServiceModels, last.resolved).cols
           = <<last.features[2][1], last.features[1][1]>>

\* C3 (as amended): a single-model request that finds an entry under its
\* cache key stored less than 300 seconds before returns the stored result
\* without running the model and leaves the cache as it is; one that finds
\* an entry stored 300 seconds or more before runs the model again and
\* replaces the entry with the new result and the current time.
C3_WindowFromStore ==
    [][(/\ last' # last
        /\ last'.op = "predict" /\ ~last'.use_ensemble
        /\ last'.cacheKey # NoKey
        /\ CacheHas(cache, last'.cacheKey))
       => IF clock - CacheGet(cache, last'.cacheKey).ts < CacheTtlSeconds
          THEN /\ last'.hit
               /\ last'.ran = <<>>
               /\ last'.result = CacheGet(cache, last'.cacheKey).result
               /\ cache' = cache
          ELSE /\ ~last'.hit
               /\ last'.ran # <<>>
               /\ last'.status = 200
               /\ CacheGet(cache', last'.cacheKey).ts = clock
               /\ CacheGet(cache', last'.cacheKey).result = last'.result]_vars

\* a request found an expired entry and ran the model again
C3_Witness ==
    /\ last.op = "predict" /\ ~last.use_ensemble /\ last.status = 200
    /\ last.expired /\ ~last.hit /\ last.ran # <<>>
    /\ CacheGet(cache, last.cacheKey).ts = last.at

\* C3 as stated: a request identical to the successful request handled
\* before it, made less than 300 seconds after that request, returns the
\* stored result without running the model.
C3_WindowFromEarlierRequest ==
    [][(/\ last' # last
        /\ last'.op = "predict" /\ ~last'.use_ensemble
        /\ last.op = "predict" /\ ~last.use_ensemble /\ last.status = 200
        /\ last'.resolved = last.resolved
        /\ SortedItems(last'.features) = SortedItems(last.features)
        /\ clock - last.at < CacheTtlSeconds)
       => (last'.ran = <<>> /\ last'.result = last.result)]_vars

\* C4 as stated: once the model directory holds a trained artifact for a
\* dataset key, a prediction for that key succeeds and is computed by the
\* newest artifact trained for it.
C4_RetrainReplacesArtifact ==
    (/\ last.op = "predict" /\ ~last.use_ensemble
     /\ last.features # <<>>
     /\ last.model_name \in TrainKeys
     /\ NewestVersion(files, last.model_name) > 0)
    => /\ last.status = 200
       /\ last.result.computed_by = NewestVersion(files, last.model_name)

\* C5 as stated: an ensemble request succeeds with exactly the artifacts
\* whose predict does not raise as contributors, and fails, with
\* NoModelsAvailable, only when every artifact's predict raises.
C5_EnsembleSkipsFailingArtifacts ==
    (last.op = "predict" /\ last.use_ensemble) =>
        LET ok == {i \in 1..Len(ServiceModels) :
                      MMPredict(ServiceModels, ServiceModels[i].key,
                                last.features).exc = "none"}
        IN  IF ok = {} THEN last.error = "NoModelsAvailable"
            ELSE /\ last.status = 200
                 /\ Range(last.result.contributors)
                        = {ServiceModels[i].key : i \in ok}

\* C6 as stated: a prediction request with an empty feature mapping gets a
\* client error and no model is selected, looked up or run, in either mode.
C6_EmptyFeaturesRejected ==
    (last.op = "predict" /\ last.features = <<>>) =>
        /\ last.status \in 400..499
        /\ ~last.selectorCalled
        /\ ~last.lookedUp
        /\ last.ran = <<>>

\* C7 as stated: an ensemble request that finds no usable artifact is
\* answered with a client error (4xx).
C7_NoModelsIsClientError ==
    (last.op = "predict" /\ last.use_ensemble
     /\ last.error = "NoModelsAvailable") => last.status \in 400..499

\* C8 (as amended): a single-model request naming a dataset key with no
\* loaded artifact fails with the model-not-found error, or, when its
\* feature mapping is empty, with the empty-features error; in both cases
\* no model is run, the cache is not written and the status is 400.
C8_UnknownKeyIsClientError ==
    [][(/\ last' # last
        /\ last'.op = "predict" /\ ~last'.use_ensemble
        /\ ~IsAuto(last'.model_name)
        /\ ~HasKey(ServiceModels, last'.model_name))
       => /\ last'.error = IF last'.features = <<>>
                           THEN "EmptyFeatureVector" ELSE "ModelNotFound"
          /\ last'.status = 400
          /\ last'.ran = <<>>
          /\ cache' = cache]_vars

\* an unknown key was refused while the cache held an entry
C8_Witness ==
    /\ last.op = "predict" /\ ~last.use_ensemble
    /\ ~HasKey(ServiceModels, last.model_name)
    /\ last.error = "ModelNotFound" /\ last.status = 400
    /\ last.ran = <<>>
    /\ cache # {}

\* C8 as stated: every such request fails with the model-not-found error.
C8_UnknownKeyIsModelNotFound ==
    [][(/\ last' # last
        /\ last'.op = "predict" /\ ~last'.use_ensemble
        /\ ~IsAuto(last'.model_name)
        /\ ~HasKey(ServiceModels, last'.model_name))
       => /\ last'.error = "ModelNotFound"
          /\ last'.status = 400
          /\ last'.ran = <<>>
          /\ cache' = cache]_vars

\* C9 as stated: a fault that is none of the defined failures is answered
\* as a server fault whose detail carries no text of the internal exception.
C9_UnexpectedFaultIsOpaque ==
    (last.op = "predict" /\ last.error \in {"Unexpected", "PredictionFailed"})
    => (last.status = 500 /\ ~last.leaks)

\* C10 as stated: for a regressor, the rounded quality score and the
\* rounded contamination index lie in [0, 100] and sum to exactly 100.00.
C10_QualityPlusContaminationIs100 ==
    (qual.derived /\ qual.model_type = "regressor") =>
        /\ qual.quality_score \in 0..10000
        /\ qual.contamination_index \in 0..10000
        /\ qual.quality_score + qual.contamination_index = 10000

\* C11: for a classifier, class 1 gives (85, 15) and any other class gives
\* (30, 70); confidence above 0.7 then adds 10 to quality (at most 100) and
\* takes 10 from contamination (at least 0); confidence below 0.5 takes 10
\* from quality and adds 10 to contamination; a confidence in [0.5, 0.7] or
\* no confidence at all leaves both as they are.
C11_ClassifierQualityTable ==
    (qual.derived /\ qual.model_type = "classifier") =>
        LET q == IF qual.prediction = 1000 THEN 8500 ELSE 3000
            c == IF qual.prediction = 1000 THEN 1500 ELSE 7000
        IN  IF qual.has_confidence /\ qual.confidence > 70
            THEN /\ qual.quality_score = (IF q + 1000 > 10000 THEN 10000
                                          ELSE q + 1000)
                 /\ qual.contamination_index = (IF c - 1000 < 0 THEN 0
                                                ELSE c - 1000)
            ELSE IF qual.has_confidence /\ qual.confidence < 50
            THEN /\ qual.quality_score = (IF q - 1000 < 0 THEN 0
                                          ELSE q - 1000)
                 /\ qual.contamination_index = (IF c + 1000 > 10000 THEN 10000
                                                ELSE c + 1000)
            ELSE /\ qual.quality_score = q
                 /\ qual.contamination_index = c

\* a potable class at confidence exactly 0.7 keeps (85, 15)
C11_Witness ==
    /\ qual.derived
    /\ qual.model_type = "classifier"
    /\ qual.prediction = 1000
    /\ qual.has_confidence
    /\ qual.confidence = 70
    /\ qual.quality_score = 8500
    /\ qual.contamination_index = 1500

\* C12: for a regressor whose key contains 'dataset4' and does not contain
\* 'dataset3', the quality is banded by the raw prediction p: p < 200 gives
\* 90, 200 <= p < 400 gives 70, 400 <= p < 600 gives 50, p >= 600 gives 30,
\* and contamination is 100 - quality.
C12_BodBandsWithoutDataset3 ==
    (/\ qual.derived
     /\ qual.model_type = "regressor"
     /\ qual.model_name \in Dataset4Names \ Dataset3Names) =>
        /\ qual.quality_score =
               (IF qual.prediction < 200000 THEN 9000
                ELSE IF qual.prediction < 400000 THEN 7000
                ELSE IF qual.prediction < 600000 THEN 5000
                ELSE 3000)
        /\ qual.contamination_index = 10000 - qual.quality_score

\* a prediction of exactly 200 under a 'dataset4' key falls in the 70 band
C12_Witness ==
    /\ qual.derived
    /\ qual.model_type = "regressor"
    /\ qual.model_name = "Dataset4_wwtp"
    /\ qual.prediction = 200000
    /\ qual.quality_score = 7000
    /\ qual.contamination_index = 3000

\* C12 as stated: the bands apply to every regressor whose key contains
\* 'dataset4'.
C12_BodBandsForEveryDataset4Key ==
    (/\ qual.derived
     /\ qual.model_type = "regressor"
     /\ qual.model_name \in Dataset4Names) =>
        /\ qual.quality_score =
               (IF qual.prediction < 200000 THEN 9000
                ELSE IF qual.prediction < 400000 THEN 7000
                ELSE IF qual.prediction < 600000 THEN 5000
                ELSE 3000)
        /\ qual.contamination_index = 10000 - qual.quality_score

\* C18: when model_selector returns a key, no loaded artifact with a feature
\* list has a greater overlap ratio than the artifact under that key, and
\* every such artifact loaded before it has a strictly smaller ratio: among
\* artifacts tied at the maximum the first loaded is returned.
C18_SelectorFirstMaximum ==
    (sel.called /\ sel.result # NoneName) =>
        \E i \in 1..Len(sel.models) :
            /\ sel.models[i].key = sel.result
            /\ sel.models[i].hasCols
            /\ \A j \in 1..Len(sel.models) :
                   sel.models[j].hasCols =>
                       /\ ~RatioGreater(sel.models[j], sel.models[i],
                                        sel.features)
                       /\ j < i => RatioGreater(sel.models[i], sel.models[j],
                                                sel.features)

\* two artifacts tied at the maximum ratio, the earlier one returned
C18_Witness ==
    /\ sel.called
    /\ Len(sel.models) = 2
    /\ sel.models[1].hasCols
    /\ sel.models[2].hasCols
    /\ sel.result = sel.models[1].key
    /\ ~RatioGreater(sel.models[1], sel.models[2], sel.features)
    /\ ~RatioGreater(sel.models[2], sel.models[1], sel.features)

\* C19: after a successful single-model prediction, ModelManager.predict
\* gives for the request's features the same prediction (and confidence) as
\* for the same features with every omitted column of the artifact supplied
\* as 0.0, as for the features the artifact does not list taken away, and as
\* for one more unlisted feature added; a freshly computed answer carries
\* that prediction.
C19_OmittedIsZeroExtraIgnored ==
    (last.op = "predict" /\ ~last.use_ensemble /\ last.status = 200) =>
        LET cols == Lookup(ServiceModels, last.resolved).cols
            omitted == SelectSeq(cols, LAMBDA c : c \notin Keys(last.features))
            zeros == [i \in 1..Len(omitted) |-> <<omitted[i], 0>>]
            listed == SelectSeq(last.features,
                                LAMBDA p : p[1] \in Range(cols))
            asSent == MMPredict(ServiceModels, last.resolved,
                                last.features).result
        IN  /\ asSent = MMPredict(ServiceModels, last.resolved,
                                  last.features \o zeros).result
            /\ asSent = MMPredict(ServiceModels, last.resolved,
                                  zeros \o last.features).result
            /\ asSent = MMPredict(ServiceModels, last.resolved, listed).result
            /\ asSent = MMPredict(ServiceModels, last.resolved,
                                  last.features \o <<<<"unlisted", 9>>>>).result
            /\ ~last.hit => last.result.prediction = asSent.prediction

\* a model was run on a request that omits one of its columns and carries
\* a feature it does not list
C19_Witness ==
    /\ last.op = "predict" /\ ~last.use_ensemble /\ last.status = 200
    /\ ~last.hit
    /\ \E c \in Range(Lookup(ServiceModels, last.resolved).cols) :
           c \notin Keys(last.features)
    /\ \E k \in Keys(last.features) :
           k \notin Range(Lookup(ServiceModels, last.resolved).cols)

\* C13: determine_reuse answers by the first matching rule of the cascade:
\* RO used and quality >= 95 gives drinking at 75%; else quality >= 85 and
\* contamination < 20 gives industrial at 90%; else quality >= 70 and
\* contamination < 40 gives irrigation at 85%; else quality >= 60 and
\* contamination < 60 gives environmental at 95%; else environmental at 90%
\* with the further-treatment description. The recovery percentage is one
\* of 75, 85, 90, 95.
C13_ReuseCascade ==
    (opt.called /\ opt.op = "determine_reuse") =>
        /\ opt.result.recovery_percentage \in {75, 85, 90, 95}
        /\ IF opt.ro_used /\ opt.quality_score >= 9500
           THEN /\ opt.result.reuse_type = "drinking"
                /\ opt.result.recovery_percentage = 75
           ELSE IF opt.quality_score >= 8500 /\ opt.contamination_index < 2000
           THEN /\ opt.result.reuse_type = "industrial"
                /\ opt.result.recovery_percentage = 90
           ELSE IF opt.quality_score >= 7000 /\ opt.contamination_index < 4000
           THEN /\ opt.result.reuse_type = "irrigation"
                /\ opt.result.recovery_percentage = 85
           ELSE IF opt.quality_score >= 6000 /\ opt.contamination_index < 6000
           THEN /\ opt.result.reuse_type = "environmental"
                /\ opt.result.recovery_percentage = 95
                /\ opt.result.description
                       = "Suitable for environmental discharge"
           ELSE /\ opt.result.reuse_type = "environmental"
                /\ opt.result.recovery_percentage = 90
                /\ opt.result.description
                       = "Requires further treatment before reuse"

\* an input that matches the drinking rule and the industrial rule at once
\* was answered by the drinking rule
C13_Witness ==
    /\ opt.called /\ opt.op = "determine_reuse"
    /\ opt.ro_used
    /\ opt.quality_score >= 9500
    /\ opt.contamination_index < 2000
    /\ opt.result.reuse_type = "drinking"

\* C14: the tertiary stage sets ro_trigger exactly when the target is
\* 'drinking', or contamination_index > 70, or quality_score < 50.
C14_RoTriggerIff ==
    (opt.called /\ opt.op = "optimize_all") =>
        (opt.result.tertiary_treatment.ro_trigger
            <=> \/ opt.target_quality = "drinking"
                \/ opt.contamination_index > 7000
                \/ opt.quality_score < 5000)

\* contamination exactly 70 and quality exactly 50 with another target:
\* no RO
C14_Witness ==
    /\ opt.called /\ opt.op = "optimize_all"
    /\ opt.target_quality # "drinking"
    /\ opt.contamination_index = 7000
    /\ opt.quality_score = 5000
    /\ ~opt.result.tertiary_treatment.ro_trigger

\* C15 (as amended): the primary settling time is
\* clamp(60 * (1 + 2 * contamination / 100), 30, 180) rounded to two decimal
\* places: 60 at contamination 0, 180 for every contamination >= 100,
\* never below 30 or above 180, and non-decreasing in contamination.
\* In thousandths of a minute the unclamped value is 60000 + 12 * c for a
\* contamination of c hundredths, which is never half way between two
\* hundredths.
C15_SettlingTimeRoundedClamp ==
    (opt.called /\ opt.op = "optimize_all") =>
        LET t == 60000 + 12 * opt.contamination_index
            clamped == IF t < 30000 THEN 30000
                       ELSE IF t > 180000 THEN 180000 ELSE t
            settling == opt.result.primary_treatment.settling_time_min
        IN  /\ settling = (clamped + 5) \div 10
            /\ settling >= 3000 /\ settling <= 18000
            /\ opt.contamination_index = 0 => settling = 6000
            /\ opt.contamination_index >= 10000 => settling = 18000
            /\ (opt.quality_score = 8500 /\ opt.sensor_data = <<>>) =>
                   \A c \in OptContaminations :
                       c <= opt.contamination_index =>
                           PrimaryOptimize(FOfHundredths(opt.quality_score),
                                           FOfHundredths(c),
                                           FOfInt(1000)).settling_time_min
                               <= settling

\* contamination 0.01: the formula gives 60.012, the stage returns 60.01
C15_Witness ==
    /\ opt.called /\ opt.op = "optimize_all"
    /\ opt.contamination_index = 1
    /\ opt.result.primary_treatment.settling_time_min = 6001

\* C15 as stated: the settling time equals the clamped formula itself.
C15_SettlingTimeEqualsClamp ==
    (opt.called /\ opt.op = "optimize_all") =>
        LET t == 60000 + 12 * opt.contamination_index
            clamped == IF t < 30000 THEN 30000
                       ELSE IF t > 180000 THEN 180000 ELSE t
        IN  10 * opt.result.primary_treatment.settling_time_min = clamped

\* C16 as stated: every numeric field of the result of optimize_all lies in
\* a closed interval, whatever the arguments: the stage values in their
\* clamp ranges, the recovery percentages in [75, 95] and the quality score
\* and contamination index, wherever they appear, in [0, 100].
C16_EveryNumericFieldBounded ==
    (opt.called /\ opt.op = "optimize_all") =>
        /\ opt.result.primary_treatment.settling_time_min \in 3000..18000
        /\ opt.result.primary_treatment.coagulant_dose_ml \in 2000..20000
        /\ opt.result.primary_treatment.sludge_volume_index \in 5000..20000
        /\ opt.result.secondary_treatment.aeration_time_min \in 18000..48000
        /\ opt.result.secondary_treatment.do_target_ppm \in 200..400
        /\ opt.result.secondary_treatment.blower_speed_rpm \in 800..1500
        /\ opt.result.secondary_treatment.sludge_age_days \in 500..1500
        /\ opt.result.tertiary_treatment.filtration_rate_lpm \in 500..1500
        /\ opt.result.tertiary_treatment.chlorine_dose_ml \in 100..500
        /\ opt.result.dosing_ml.coagulant \in 2000..20000
        /\ opt.result.dosing_ml.chlorine \in 100..500
        /\ opt.result.final_reuse.recovery_percentage \in 75..95
        /\ opt.result.expected_recovery_percentage \in 75..95
        /\ opt.result.quality_score \in 0..10000
        /\ opt.result.contamination_index \in 0..10000
        /\ opt.result.final_reuse.quality_score \in 0..10000
        /\ opt.result.final_reuse.contamination_index \in 0..10000

C20_ResultComposition ==
    (opt.called /\ opt.op = "optimize_all") =>
        /\ opt.result.final_reuse
               = determine_reuse(FOfHundredths(opt.quality_score),
                                 FOfHundredths(opt.contamination_index),
                                 opt.result.tertiary_treatment.ro_trigger)
        /\ opt.target_quality = "drinking" =>
               (opt.result.final_reuse.reuse_type = "drinking"
                   <=> opt.quality_score >= 9500)
        /\ opt.result.recommended_process_steps
               = opt.result.primary_treatment.recommendations
                 \o opt.result.secondary_treatment.recommendations
                 \o opt.result.tertiary_treatment.recommendations
        /\ Len(opt.result.primary_treatment.recommendations) = 3
        /\ Len(opt.result.secondary_treatment.recommendations) = 4
        /\ Len(opt.result.tertiary_treatment.recommendations) = 3
        /\ opt.result.dosing_ml.coagulant
               = opt.result.primary_treatment.coagulant_dose_ml
        /\ opt.result.dosing_ml.chlorine
               = opt.result.tertiary_treatment.chlorine_dose_ml
        /\ opt.result.expected_recovery_percentage
               = opt.result.final_reuse.recovery_percentage

\* a drinking target with quality 95 or more: RO triggered and the reuse
\* determined as drinking at 75% recovery
C20_Witness ==
    /\ opt.called /\ opt.op = "optimize_all"
    /\ opt.target_quality = "drinking"
    /\ opt.quality_score >= 9500
    /\ opt.result.tertiary_treatment.ro_trigger
    /\ opt.result.final_reuse.reuse_type = "drinking"
    /\ opt.result.expected_recovery_percentage = 75

\* C30: when optimize_all is given sensor data with no 'bod' and no 'cod'
\* reading, the secondary aeration time is 480 minutes for every quality
\* score and contamination index.
C30_DefaultAerationAtClamp ==
    (/\ opt.called /\ opt.op = "optimize_all"
     /\ "bod" \notin Keys(opt.sensor_data)
     /\ "cod" \notin Keys(opt.sensor_data)) =>
        /\ opt.result.secondary_treatment.aeration_time_min = 48000
        /\ opt.result.recommended_process_steps[4]
               = <<"Aerate for (.0f) minutes", 480>>

\* sensor data that carries a flow rate only
C30_Witness ==
    /\ opt.called /\ opt.op = "optimize_all"
    /\ Keys(opt.sensor_data) = {"flow_rate_lpm"}
    /\ opt.contamination_index = 7001
    /\ opt.result.secondary_treatment.aeration_time_min = 48000

\* C23: for a classifier the derived (quality, contamination) pair is one of
\* (95, 5), (85, 15), (75, 25), (40, 60), (30, 70), (20, 80), so the caps at
\* 100 and the floors at 0 never bind and the two values sum to 100 with
\* or without a confidence adjustment.
C23_ClassifierPairs ==
    (qual.derived /\ qual.model_type = "classifier") =>
        /\ <<qual.quality_score, qual.contamination_index>>
               \in { <<9500, 500>>, <<8500, 1500>>, <<7500, 2500>>,
                     <<4000, 6000>>, <<3000, 7000>>, <<2000, 8000>> }
        /\ qual.quality_score + qual.contamination_index = 10000

\* a non-potable class at low confidence: the lowest pair, (20, 80)
C23_Witness ==
    /\ qual.derived
    /\ qual.model_type = "classifier"
    /\ qual.has_confidence
    /\ qual.confidence < 50
    /\ qual.quality_score = 2000
    /\ qual.contamination_index = 8000

\* C21: in a successful ensemble prediction there is one weight per artifact
\* whose predict succeeded, in registry order; each weight is the artifact's
\* confidence (0.5 when it reports none) over the sum of those confidences,
\* so the weights sum to 1; and the prediction is the sum of weight times
\* prediction. Weights are kept as numerators over weight_sum and the
\* prediction as a numerator over weight_sum.
C21_EnsembleWeights ==
    (last.op = "predict" /\ last.use_ensemble /\ last.status = 200) =>
        LET each == [i \in 1..Len(ServiceModels) |->
                        MMPredict(ServiceModels, ServiceModels[i].key,
                                  last.features)]
            ok == SelectSeq([i \in 1..Len(ServiceModels) |-> i],
                            LAMBDA i : each[i].exc = "none")
            r == last.result
        IN  /\ Len(r.weights) = Len(ok)
            /\ Len(ok) > 0
            /\ r.contributors = [j \in 1..Len(ok) |-> ServiceModels[ok[j]].key]
            /\ \A j \in 1..Len(ok) :
                   r.weights[j] = IF each[ok[j]].result.has_confidence
                                  THEN each[ok[j]].result.confidence ELSE 50
            /\ r.weight_sum = SumSeq(r.weights)
            /\ r.weight_sum > 0
            /\ r.prediction
                   = SumSeq([j \in 1..Len(ok) |->
                                r.weights[j] * each[ok[j]].result.prediction])

\* an ensemble of a regressor without confidence and a classifier with one
C21_Witness ==
    /\ last.op = "predict" /\ last.use_ensemble /\ last.status = 200
    /\ Len(last.result.weights) = 2
    /\ last.result.weights[1] = 50
    /\ last.result.weights[2] # 50

\* C24: every cache entry holds the result computed under the model name
\* and for the feature name/value pairs of its key; a hit returns the entry
\* whose key carries the request's resolved model name and exactly the
\* request's name/value pairs; and after a successful request with the
\* model name absent or 'auto', an explicit request for the resolved name
\* with the same features addresses the same key: made at the same time it
\* is a hit, and whenever it is a hit it returns the same result.
C24_CacheKeyedByNameAndFeatures ==
    /\ \A e \in cache :
           /\ e.result.model_name = e.key[1]
           /\ e.result.prediction
                  = MMPredict(ServiceModels, e.key[1], e.key[2]).result.prediction
    /\ (last.op = "predict" /\ ~last.use_ensemble /\ last.hit) =>
           \E e \in cache :
               /\ e.result = last.result
               /\ e.key[1] = last.resolved
               /\ Range(e.key[2]) = Range(last.features)
               /\ Len(e.key[2]) = Len(last.features)
    /\ (/\ last.op = "predict" /\ ~last.use_ensemble /\ last.status = 200
        /\ IsAuto(last.model_name)) =>
           /\ last.cacheKey = CacheKey(last.resolved, last.features)
           /\ ServicePredict(ServiceModels, cache, clock, last.features,
                             last.resolved).cacheKey = last.cacheKey
           /\ clock = last.at =>
                  ServicePredict(ServiceModels, cache, clock, last.features,
                                 last.resolved).hit
           /\ ServicePredict(ServiceModels, cache, clock, last.features,
                             last.resolved).hit =>
                  ServicePredict(ServiceModels, cache, clock, last.features,
                                 last.resolved).result = last.result

\* an automatic selection answered from an entry stored earlier, while the
\* registry holds another artifact as well
C24_Witness ==
    /\ last.op = "predict" /\ ~last.use_ensemble /\ last.hit
    /\ IsAuto(last.model_name)
    /\ Len(ServiceModels) = 2
    /\ \E e \in cache : e.key = last.cacheKey /\ e.ts < last.at

\* C25: a MLService.predict call that raises leaves the cache as it was;
\* the cache changes only by a predict call that returns a computed result,
\* which puts that result under its key with the current time and keeps
\* every other entry, or by clear_cache, which empties the cache and
\* returns the number of entries it held.
C25_CacheChangesOnlyOnSuccess ==
    [][/\ (/\ last' # last
           /\ last'.op = "predict" /\ ~last'.use_ensemble
           /\ last'.status # 200) => cache' = cache
       /\ last'.op = "clear_cache" /\ last' # last =>
              /\ cache' = {}
              /\ last'.cleared = Cardinality(cache)
       /\ cache' # cache =>
              \/ /\ last'.op = "clear_cache"
                 /\ cache' = {}
              \/ /\ last'.op = "predict" /\ ~last'.use_ensemble
                 /\ last'.status = 200 /\ ~last'.hit
                 /\ cache' = {e \in cache : e.key # last'.cacheKey}
                             \cup {[key |-> last'.cacheKey, ts |-> clock,
                                    result |-> last'.result]}]_vars

\* a request failed while running the model, with an entry in the cache
C25_Witness ==
    /\ last.op = "predict" /\ ~last.use_ensemble
    /\ last.error = "PredictionFailed"
    /\ cache # {}

C26_AtMostLimitPerWindow ==
    \A k \in RlKeys :
      \A t \in 0..(MaxRlClock + RlWindow * RlTicksPerSecond) :
        Cardinality({i \in 1..Len(rl.granted[k]) :
                        /\ rl.granted[k][i] >= t - RlWindow * RlTicksPerSecond
                        /\ rl.granted[k][i] <= t}) <= RlLimit

\* a key used its whole allowance in one window, was denied in it and was
\* allowed again later
C26_Witness ==
    /\ Len(rl.granted["ip1"]) = RlLimit + 1
    /\ rl.granted["ip1"][RlLimit] < RlWindow * RlTicksPerSecond
    /\ rl.last.op = "allow_request"
    /\ rl.last.key = "ip1"
    /\ rl.last.allowed
    /\ rl.last.pending.denied

\* C27: a request of a key made retry_after seconds after a denied request
\* of that key, with no request of the key in between, is allowed.
C27_RetryAfterIsEnough ==
    (/\ rl.last.op = "allow_request"
     /\ rl.last.pending.denied
     /\ rl.last.at = rl.last.pending.at
                       + rl.last.pending.retry_after * RlTicksPerSecond)
        => rl.last.allowed

\* C28: a denied allow_request leaves the log of every key as it was, an
\* allowed one changes the history of its own key only, and
\* get_window_usage leaves the log as it was.
C28_LogFrame ==
    /\ (rl.last.op = "allow_request" /\ ~rl.last.allowed) =>
          rl.log = rl.last.before
    /\ (rl.last.op = "allow_request" /\ rl.last.allowed) =>
          /\ \A k \in RlKeys \ {rl.last.key} : rl.log[k] = rl.last.before[k]
          /\ rl.log[rl.last.key] =
                Append(Prune(rl.last.before[rl.last.key], rl.last.at, RlWindow),
                       rl.last.at)
    /\ rl.last.op = "get_window_usage" => rl.log = rl.last.before

\* a request of one key was denied while the other key had a history of
\* its own, after an earlier entry of the denied key had left the window
C28_Witness ==
    /\ rl.last.op = "allow_request"
    /\ ~rl.last.allowed
    /\ Len(rl.granted[rl.last.key]) > RlLimit
    /\ \E k \in RlKeys : k # rl.last.key /\ rl.log[k] # <<>>

\* C29: is_connected holds only while the last of the events _on_connect,
\* _on_disconnect, disconnect and failed connect is an _on_connect with
\* return code 0; a publish that finds no client or is_connected false
\* returns False and hands nothing to the client, and a subscribe that
\* finds the same neither subscribes nor replaces the message callback.
C29_ConnectionStateMachine ==
    /\ mq.is_connected => mq.status = "on_connect_ok"
    /\ (mq.last.op = "publish"
            /\ (mq.last.clientBefore = 0 \/ ~mq.last.connBefore)) =>
          mq.last.ret = "False" /\ mq.published = mq.last.publishedBefore
    /\ (mq.last.op = "subscribe"
            /\ (mq.last.clientBefore = 0 \/ ~mq.last.connBefore)) =>
          mq.subs = mq.last.subsBefore
              /\ mq.message_callback = mq.last.callbackBefore

====
